---------------------------- MODULE Spec2Model ----------------------------
(***************************************************************************)
(* Date/time normalization engine of the ogilvy repository: the three     *)
(* per-source modules sprinklr.py, tubular.py and youscan.py               *)
(* (process_dataframe, _find_created_col, batch_export).                   *)
(*                                                                         *)
(* Strings are sequences of one-character strings, so that lower(),        *)
(* strip(), lstrip("0"), substring tests and strptime/strftime are         *)
(* computed character by character.  A table is a record                   *)
(* [cols |-> sequence of column names, rows |-> sequence of rows], each   *)
(* row a sequence of cells aligned with cols.                              *)
(***************************************************************************)
EXTENDS Integers, Sequences, FiniteSets, TLC

VARIABLES
    profile,    \* which module is called: "sprinklr", "tubular", "youscan"
    df,         \* the caller's table, argument of process_dataframe
    opts,       \* keyword arguments of the call
    result,     \* outcome of process_dataframe
    files,      \* batch_export: the input sequence of files
    idx,        \* batch_export: number of files the for loop has consumed
    outs,       \* batch_export: the list outs
    log,        \* batch_export: what was printed, in order
    attempts,   \* batch_export: files handed to auto_export, in order
    pc,         \* batch_export: "loop" while iterating, "done" after return
    resolved,   \* outcome of _find_created_col called on df.columns
    run,        \* outcome of an export flow or of a command-line run
    default_keep_columns  \* tubular's module list _DEFAULT_KEEP_COLUMNS, as it is now

vars ==
    <<profile, df, opts, result, files, idx, outs, log, attempts, pc, resolved,
      run, default_keep_columns>>

\* the variables of one call of process_dataframe, and the module list the
\* call reads
callVars == <<profile, df, opts, result, default_keep_columns>>

\* the variables of batch_export
batchVars == <<files, idx, outs, log, attempts, pc>>

(***************************************************************************)
(* Characters and strings                                                  *)
(***************************************************************************)

Digits == <<"0", "1", "2", "3", "4", "5", "6", "7", "8", "9">>

IsDigit(c) == \E i \in 1..10 : Digits[i] = c

DigitVal(c) == (CHOOSE i \in 1..10 : Digits[i] = c) - 1

\* str.isspace for the characters that occur in the modelled cells
IsSpace(c) == c = " "

UpperLetters == <<"A", "B", "C", "D", "E", "F", "G", "H", "I", "J", "K", "L", "M",
                  "N", "O", "P", "Q", "R", "S", "T", "U", "V", "W", "X", "Y", "Z">>

LowerLetters == <<"a", "b", "c", "d", "e", "f", "g", "h", "i", "j", "k", "l", "m",
                  "n", "o", "p", "q", "r", "s", "t", "u", "v", "w", "x", "y", "z">>

\* str.lower(), one character
LowerChar(c) ==
    IF \E i \in 1..26 : UpperLetters[i] = c
    THEN LowerLetters[CHOOSE i \in 1..26 : UpperLetters[i] = c]
    ELSE c

\* str.lower()
Lower(s) == [i \in 1..Len(s) |-> LowerChar(s[i])]

\* `sub in s` for two strings
Contains(s, sub) ==
    \E i \in 0..(Len(s) - Len(sub)) : SubSeq(s, i + 1, i + Len(sub)) = sub

RECURSIVE LStripChar(_, _)
\* str.lstrip(c) for a one-character argument
LStripChar(s, c) ==
    IF s # <<>> /\ Head(s) = c THEN LStripChar(Tail(s), c) ELSE s

RECURSIVE LStripSpace(_)
LStripSpace(s) ==
    IF s # <<>> /\ IsSpace(Head(s)) THEN LStripSpace(Tail(s)) ELSE s

RECURSIVE RStripSpace(_)
RStripSpace(s) ==
    IF s # <<>> /\ IsSpace(s[Len(s)])
    THEN RStripSpace(SubSeq(s, 1, Len(s) - 1))
    ELSE s

\* str.strip()
Strip(s) == RStripSpace(LStripSpace(s))

RECURSIVE CollapseSpaces(_)
\* re.sub(r"\s+", " ", s)
CollapseSpaces(s) ==
    IF s = <<>> THEN <<>>
    ELSE IF IsSpace(Head(s))
         THEN <<" ">> \o CollapseSpaces(LStripSpace(s))
         ELSE <<Head(s)>> \o CollapseSpaces(Tail(s))

RECURSIVE StrOfNat(_)
\* str(n) of a natural number
StrOfNat(n) ==
    IF n < 10 THEN <<Digits[n + 1]>>
    ELSE StrOfNat(n \div 10) \o <<Digits[(n % 10) + 1]>>

\* a strftime field of width two (%d, %m, %y, %I, %M, %S)
Pad2(n) == IF n < 10 THEN <<"0">> \o StrOfNat(n) ELSE StrOfNat(n)

RECURSIVE SplitOn(_, _)
\* str.split(sep) for a one-character separator
SplitOn(s, sep) ==
    IF \A i \in 1..Len(s) : s[i] # sep THEN <<s>>
    ELSE LET k == CHOOSE i \in 1..Len(s) :
                      s[i] = sep /\ \A j \in 1..(i - 1) : s[j] # sep
         IN  <<SubSeq(s, 1, k - 1)>> \o SplitOn(SubSeq(s, k + 1, Len(s)), sep)

AllDigits(s) == s # <<>> /\ \A i \in 1..Len(s) : IsDigit(s[i])

RECURSIVE NatOfStr(_)
\* int(s) of a string of digits
NatOfStr(s) ==
    IF s = <<>> THEN 0
    ELSE 10 * NatOfStr(SubSeq(s, 1, Len(s) - 1)) + DigitVal(s[Len(s)])

\* position of the first occurrence of x in the sequence q (0 when absent)
IndexOf(q, x) ==
    IF \E i \in 1..Len(q) : q[i] = x
    THEN CHOOSE i \in 1..Len(q) : q[i] = x /\ \A j \in 1..(i - 1) : q[j] # x
    ELSE 0

\* `x in q` for a list or an Index
In(x, q) == \E i \in 1..Len(q) : q[i] = x

(***************************************************************************)
(* Python and pandas values                                                *)
(***************************************************************************)

\* Python None where a string is expected (no string: its one element is
\* not a character)
None == <<"<None>">>

\* Python None where a list of strings is expected
NoneList == <<None>>

\* a missing cell of a string column (NaN)
NaN == <<"<NaN>">>

\* a missing timestamp (pandas NaT); a timestamp is <<Y, M, D, h, m, s>>
NaT == <<>>

\* Python truthiness of an optional string: None and "" are false
Truthy(x) == x # None /\ x # <<>>

Year(ts) == ts[1]

Month(ts) == ts[2]

Day(ts) == ts[3]

Hour(ts) == ts[4]

Minute(ts) == ts[5]

Second(ts) == ts[6]

\* Series.astype(str), one cell: a missing cell becomes the text "nan"
AsStr(cell) == IF cell = NaN THEN <<"n", "a", "n">> ELSE cell

IsLeap(y) == (y % 4 = 0 /\ y % 100 # 0) \/ y % 400 = 0

DaysInMonth(y, m) ==
    CASE m \in {4, 6, 9, 11} -> 30
      [] m = 2 -> IF IsLeap(y) THEN 29 ELSE 28
      [] OTHER -> 31

\* a calendar date that a datetime64[ns] value can hold
ValidDate(y, m, d) ==
    /\ y \in 1678..2261
    /\ m \in 1..12
    /\ d \in 1..DaysInMonth(y, m)

Field12(s) == AllDigits(s) /\ Len(s) \in 1..2

(***************************************************************************)
(* youscan.py: pd.to_datetime(..., format=..., errors="coerce")            *)
(***************************************************************************)

\* format="%d.%m.%Y"
Strptime_dmY(s) ==
    LET f == SplitOn(s, ".")
    IN  IF /\ Len(f) = 3
           /\ Field12(f[1]) /\ Field12(f[2])
           /\ AllDigits(f[3]) /\ Len(f[3]) = 4
           /\ ValidDate(NatOfStr(f[3]), NatOfStr(f[2]), NatOfStr(f[1]))
        THEN <<NatOfStr(f[3]), NatOfStr(f[2]), NatOfStr(f[1]), 0, 0, 0>>
        ELSE NaT

\* format="%H:%M": the date defaults to 1900-01-01
Strptime_HM(s) ==
    LET f == SplitOn(s, ":")
    IN  IF /\ Len(f) = 2
           /\ Field12(f[1]) /\ Field12(f[2])
           /\ NatOfStr(f[1]) \in 0..23
           /\ NatOfStr(f[2]) \in 0..59
        THEN <<1900, 1, 1, NatOfStr(f[1]), NatOfStr(f[2]), 0>>
        ELSE NaT

\* format="%d.%m.%Y %H:%M" (the blank of the format matches \s+)
Strptime_dmY_HM(s) ==
    LET f == SplitOn(CollapseSpaces(s), " ")
    IN  IF Len(f) = 2 /\ Strptime_dmY(f[1]) # NaT /\ Strptime_HM(f[2]) # NaT
        THEN LET d == Strptime_dmY(f[1])
                 t == Strptime_HM(f[2])
             IN  <<Year(d), Month(d), Day(d), Hour(t), Minute(t), 0>>
        ELSE NaT

(***************************************************************************)
(* sprinklr.py, tubular.py: pd.to_datetime(..., errors="coerce") without   *)
(* a format, cell by cell (the dateutil reading of the shapes the exports  *)
(* hold: D/M/YYYY or YYYY-MM-DD, then [h:mm[:ss] [AM|PM]])                 *)
(***************************************************************************)

\* the date token: <<Y, M, D>> or <<>>
ParseDateToken(tok, dayfirst) ==
    LET sl == SplitOn(tok, "/")
        hy == SplitOn(tok, "-")
    IN  IF Len(sl) = 3 /\ Field12(sl[1]) /\ Field12(sl[2])
           /\ AllDigits(sl[3]) /\ Len(sl[3]) = 4
        THEN LET a == NatOfStr(sl[1])
                 b == NatOfStr(sl[2])
                 y == NatOfStr(sl[3])
                 d1 == IF dayfirst THEN a ELSE b
                 m1 == IF dayfirst THEN b ELSE a
             IN  IF ValidDate(y, m1, d1) THEN <<y, m1, d1>>
                 ELSE IF ValidDate(y, d1, m1) THEN <<y, d1, m1>>
                 ELSE <<>>
        ELSE IF Len(hy) = 3 /\ AllDigits(hy[1]) /\ Len(hy[1]) = 4
                /\ Field12(hy[2]) /\ Field12(hy[3])
                /\ ValidDate(NatOfStr(hy[1]), NatOfStr(hy[2]), NatOfStr(hy[3]))
        THEN <<NatOfStr(hy[1]), NatOfStr(hy[2]), NatOfStr(hy[3])>>
        ELSE <<>>

\* the time token: <<h, m, s>> or <<>>
ParseTimeToken(tok) ==
    LET f == SplitOn(tok, ":")
    IN  IF /\ Len(f) \in 2..3
           /\ \A i \in 1..Len(f) : Field12(f[i])
           /\ NatOfStr(f[1]) \in 0..23
           /\ NatOfStr(f[2]) \in 0..59
           /\ (Len(f) = 3 => NatOfStr(f[3]) \in 0..59)
        THEN <<NatOfStr(f[1]), NatOfStr(f[2]),
               IF Len(f) = 3 THEN NatOfStr(f[3]) ELSE 0>>
        ELSE <<>>

\* the AM/PM token as dateutil reads it: "AM", "PM", "a.m.", "p.m." in any
\* case; "am", "pm" or "" (no such token)
AmPmOf(tok) ==
    LET l == Lower(tok)
    IN  IF l \in {<<"a", "m">>, <<"a", ".", "m", ".">>, <<"a">>} THEN "am"
        ELSE IF l \in {<<"p", "m">>, <<"p", ".", "m", ".">>, <<"p">>} THEN "pm"
        ELSE ""

ToDatetime(s, dayfirst) ==
    LET f == SplitOn(CollapseSpaces(Strip(s)), " ")
        d == ParseDateToken(f[1], dayfirst)
    IN  IF d = <<>> \/ Len(f) > 3 THEN NaT
        ELSE IF Len(f) = 1 THEN <<d[1], d[2], d[3], 0, 0, 0>>
        ELSE LET t == ParseTimeToken(f[2])
             IN  IF t = <<>> THEN NaT
                 ELSE IF Len(f) = 2 THEN <<d[1], d[2], d[3], t[1], t[2], t[3]>>
                 ELSE LET ap == AmPmOf(f[3])
                      IN  IF ap = "" \/ t[1] \notin 1..12 THEN NaT
                          ELSE <<d[1], d[2], d[3],
                                 (t[1] % 12) + (IF ap = "pm" THEN 12 ELSE 0),
                                 t[2], t[3]>>

(***************************************************************************)
(* tubular.py: the two regular-expression replacements of lines 117-119    *)
(***************************************************************************)

\* end of the match of \s*<letter>[.\s]?m[.]? (case-insensitive) that starts
\* at position i of s; 0 when there is none
AmPmMatchEnd(s, i, letter) ==
    LET n == Len(s)
        sp == CHOOSE k \in i..(n + 1) :
                  /\ \A j \in i..(k - 1) : IsSpace(s[j])
                  /\ (k = n + 1 \/ ~IsSpace(s[k]))
        isM(k) == k <= n /\ LowerChar(s[k]) = "m"
        dot(k) == IF k + 1 <= n /\ s[k + 1] = "." THEN k + 1 ELSE k
    IN  IF sp > n \/ LowerChar(s[sp]) # letter THEN 0
        ELSE IF sp + 1 <= n /\ (s[sp + 1] = "." \/ IsSpace(s[sp + 1])) /\ isM(sp + 2)
        THEN dot(sp + 2)
        ELSE IF isM(sp + 1) THEN dot(sp + 1)
        ELSE 0

RECURSIVE AmPmReplaceFrom(_, _, _, _)
\* Series.str.replace(pattern, repl, regex=True, case=False), one cell,
\* scanning from position i
AmPmReplaceFrom(s, i, letter, repl) ==
    IF i > Len(s) THEN <<>>
    ELSE LET e == AmPmMatchEnd(s, i, letter)
         IN  IF e = 0 THEN <<s[i]>> \o AmPmReplaceFrom(s, i + 1, letter, repl)
             ELSE repl \o AmPmReplaceFrom(s, e + 1, letter, repl)

\* 'a.m.'/'p.m.' and their variants to ' AM'/' PM'
NormalizeAmPm(s) ==
    AmPmReplaceFrom(AmPmReplaceFrom(s, 1, "a", <<" ", "A", "M">>),
                    1, "p", <<" ", "P", "M">>)

(***************************************************************************)
(* Derived fields                                                          *)
(***************************************************************************)

\* a floor that lands on the hour before the one of the timestamp
FloorHour_previous_hour(ts) ==
    IF ts = NaT THEN NaT
    ELSE <<Year(ts), Month(ts), Day(ts), (Hour(ts) + 23) % 24, 0, 0>>

\* Series.dt.floor("H"), one value
FloorHour(ts) ==
    IF ts = NaT THEN NaT ELSE <<Year(ts), Month(ts), Day(ts), Hour(ts), 0, 0>>

\* %I of strftime, as a number
Hour12(h) == IF h % 12 = 0 THEN 12 ELSE h % 12

\* Series.dt.strftime("%I:%M:%S %p"), one value; NaT gives NaN
Strftime_IMSp(ts) ==
    IF ts = NaT THEN NaN
    ELSE Pad2(Hour12(Hour(ts))) \o <<":">> \o Pad2(Minute(ts)) \o <<":">>
         \o Pad2(Second(ts)) \o <<" ">>
         \o (IF Hour(ts) < 12 THEN <<"A", "M">> ELSE <<"P", "M">>)

\* Series.dt.strftime("%d/%m/%y"), one value; NaT gives NaN
Strftime_dmy(ts) ==
    IF ts = NaT THEN NaN
    ELSE Pad2(Day(ts)) \o <<"/">> \o Pad2(Month(ts)) \o <<"/">>
         \o Pad2(Year(ts) % 100)

\* Series.str.lstrip("0"), one value; NaN stays NaN
StrLStrip0(x) == IF x = NaN THEN NaN ELSE LStripChar(x, "0")

\* .astype("Int64").astype(str) of a component of a timestamp: the missing
\* integer <NA> becomes the text "<NA>"
Int64Str(ts, k) ==
    IF ts = NaT THEN <<"<", "N", "A", ">">> ELSE StrOfNat(ts[k])

\* dt.month + "/" + dt.day + "/" + dt.year, each through Int64 and str
DateMDY(ts) ==
    Int64Str(ts, 2) \o <<"/">> \o Int64Str(ts, 3) \o <<"/">> \o Int64Str(ts, 1)

\* the hora of sprinklr.py: strftime("%I:%M:%S %p").str.lstrip("0")
HoraOf(ts) == StrLStrip0(Strftime_IMSp(ts))

(***************************************************************************)
(* Column names that the code writes as literals                           *)
(***************************************************************************)

N_date == <<"d", "a", "t", "e">>

N_hora == <<"h", "o", "r", "a">>

N_hora_original == <<"h", "o", "r", "a", "_", "o", "r", "i", "g", "i", "n", "a", "l">>

N_tag == <<"t", "a", "g">>

N_tag_text == <<"t", "a", "g", "_", "t", "e", "x", "t">>

N_Created_Time == <<"C", "r", "e", "a", "t", "e", "d", " ", "T", "i", "m", "e">>

N_Date == <<"D", "a", "t", "e">>

N_Time == <<"T", "i", "m", "e">>

N_Sender_Profile_Image_Url == <<"S", "e", "n", "d", "e", "r", " ", "P", "r", "o", "f", "i", "l", "e", " ", "I", "m", "a", "g", "e", " ", "U", "r", "l">>

N_Associated_Cases == <<"A", "s", "s", "o", "c", "i", "a", "t", "e", "d", " ", "C", "a", "s", "e", "s">>

N_Views == <<"V", "i", "e", "w", "s">>

\* _CANDIDATE_CREATED_COLS of sprinklr.py
CANDIDATE_CREATED_COLS ==
    << <<"C", "r", "e", "a", "t", "e", "d", " ", "T", "i", "m", "e">>,
       <<"C", "r", "e", "a", "t", "e", "d", " ", "t", "i", "m", "e">>,
       <<"c", "r", "e", "a", "t", "e", "d", "_", "t", "i", "m", "e">>,
       <<"c", "r", "e", "a", "t", "e", "d", " ", "t", "i", "m", "e">>,
       <<"F", "e", "c", "h", "a", " ", "d", "e", " ", "c", "r", "e", "a", "c", "i", "ó", "n">>,
       <<"F", "e", "c", "h", "a">>,
       <<"D", "a", "t", "e", " ", "C", "r", "e", "a", "t", "e", "d">>,
       <<"T", "i", "m", "e", "s", "t", "a", "m", "p">>,
       <<"T", "i", "m", "e">> >>

\* _CANDIDATE_CREATED_COLS of tubular.py
tubular_CANDIDATE_CREATED_COLS ==
    << <<"C", "r", "e", "a", "t", "e", "d", " ", "T", "i", "m", "e">>,
       <<"C", "r", "e", "a", "t", "e", "d", " ", "t", "i", "m", "e">>,
       <<"c", "r", "e", "a", "t", "e", "d", "_", "t", "i", "m", "e">>,
       <<"c", "r", "e", "a", "t", "e", "d", " ", "t", "i", "m", "e">>,
       <<"F", "e", "c", "h", "a", " ", "d", "e", " ", "c", "r", "e", "a", "c", "i", "ó", "n">>,
       <<"F", "e", "c", "h", "a">>,
       <<"D", "a", "t", "e", " ", "C", "r", "e", "a", "t", "e", "d">>,
       <<"T", "i", "m", "e", "s", "t", "a", "m", "p">>,
       <<"T", "i", "m", "e">> >>

\* the keyword substrings of the fallback of _find_created_col (sprinklr.py)
KEYWORDS ==
    << <<"c", "r", "e", "a", "t">>,
       <<"f", "e", "c", "h", "a">>,
       <<"t", "i", "m", "e">>,
       <<"d", "a", "t", "e">>,
       <<"t", "i", "m", "e", "s", "t", "a", "m", "p">> >>

\* the keyword substrings of the fallback of _find_created_col (tubular.py)
tubular_KEYWORDS ==
    << <<"c", "r", "e", "a", "t">>,
       <<"f", "e", "c", "h", "a">>,
       <<"t", "i", "m", "e">>,
       <<"d", "a", "t", "e">>,
       <<"t", "i", "m", "e", "s", "t", "a", "m", "p">> >>

\* _DEFAULT_KEEP_COLUMNS of tubular.py
DEFAULT_KEEP_COLUMNS ==
    << <<"D", "a", "t", "e">>,
       <<"C", "r", "e", "a", "t", "o", "r">>,
       <<"V", "i", "d", "e", "o", "_", "T", "i", "t", "l", "e">>,
       <<"V", "i", "d", "e", "o", "_", "U", "R", "L">>,
       <<"T", "o", "t", "a", "l", "_", "E", "n", "g", "a", "g", "e", "m", "e", "n", "t", "s">>,
       <<"V", "i", "e", "w", "s">>,
       <<"p", "l", "a", "t", "f", "o", "r", "m">> >>

\* the default keep_columns list of youscan.py
youscan_DEFAULT_KEEP_COLUMNS ==
    << <<"A", "u", "t", "h", "o", "r">>,
       <<"S", "o", "u", "r", "c", "e">>,
       <<"T", "i", "t", "l", "e">>,
       <<"U", "R", "L">>,
       <<"L", "i", "k", "e", "s">>,
       <<"C", "o", "m", "m", "e", "n", "t", "s">>,
       <<"S", "h", "a", "r", "e", "s">>,
       <<"R", "e", "a", "c", "h">>,
       <<"E", "n", "g", "a", "g", "e", "m", "e", "n", "t">>,
       <<"V", "i", "e", "w", "s">> >>

(***************************************************************************)
(* Tables (pandas.DataFrame with distinct column labels)                   *)
(***************************************************************************)

EmptyTable == [cols |-> <<>>, rows |-> <<>>]

NRows(t) == Len(t.rows)

\* `c in df.columns`
HasCol(t, c) == In(c, t.cols)

\* df[c]: the cells of column c, one per row
Column(t, c) == [i \in 1..NRows(t) |-> t.rows[i][IndexOf(t.cols, c)]]

\* the positions of cols whose name is not in the set names, in order
KeptPositions(cols, names) ==
    SelectSeq([i \in 1..Len(cols) |-> i], LAMBDA i : cols[i] \notin names)

\* df.drop(columns=names, errors="ignore")
DropCols(t, names) ==
    LET pos == KeptPositions(t.cols, names)
    IN  [cols |-> [k \in 1..Len(pos) |-> t.cols[pos[k]]],
         rows |-> [i \in 1..NRows(t) |->
                      [k \in 1..Len(pos) |-> t.rows[i][pos[k]]]]]

\* df.insert(0, name, series)
InsertFront(t, name, series) ==
    [cols |-> <<name>> \o t.cols,
     rows |-> [i \in 1..NRows(t) |-> <<series[i]>> \o t.rows[i]]]

\* df[c] = series, for a column c of df
SetColumn(t, c, series) ==
    [cols |-> t.cols,
     rows |-> [i \in 1..NRows(t) |->
                  [k \in 1..Len(t.cols) |->
                      IF k = IndexOf(t.cols, c) THEN series[i] ELSE t.rows[i][k]]]]

\* a selection that loses the rows after the first
SelectCols_first_row(t, names) ==
    [cols |-> names,
     rows |-> [i \in 1..(IF NRows(t) > 0 THEN 1 ELSE 0) |->
                  [k \in 1..Len(names) |-> t.rows[i][IndexOf(t.cols, names[k])]]]]

\* df[names] for a list of names that are all columns of df
SelectCols(t, names) ==
    [cols |-> names,
     rows |-> [i \in 1..NRows(t) |->
                  [k \in 1..Len(names) |-> t.rows[i][IndexOf(t.cols, names[k])]]]]

\* df.reindex(columns=names): a name that is no column gives a column of NaN
Reindex(t, names) ==
    [cols |-> names,
     rows |-> [i \in 1..NRows(t) |->
                  [k \in 1..Len(names) |->
                      IF HasCol(t, names[k])
                      THEN t.rows[i][IndexOf(t.cols, names[k])]
                      ELSE NaN]]]

\* a datetime64 cell as a cell of the table (its text, or the mark of NaT)
DtCell(ts) ==
    IF ts = NaT THEN <<"<NaT>">>
    ELSE <<"<datetime>">> \o StrOfNat(Year(ts)) \o <<"-">> \o Pad2(Month(ts))
         \o <<"-">> \o Pad2(Day(ts)) \o <<" ">> \o Pad2(Hour(ts)) \o <<":">>
         \o Pad2(Minute(ts)) \o <<":">> \o Pad2(Second(ts))

\* the two outcomes of a call
Raised(err, warns) ==
    [status |-> "raised", error |-> err, table |-> EmptyTable, warns |-> warns]

Returned(t, warns) ==
    [status |-> "returned", error |-> "", table |-> t, warns |-> warns]

(***************************************************************************)
(* Time zones: tz_localize, tz_convert and _ensure_naive                   *)
(***************************************************************************)

\* tz_from=None / tz_to=None
TzNone == "<None>"

TzTruthy(z) == z # TzNone /\ z # ""

\* hours east of UTC of the zones of the model (zones without daylight saving)
UtcOffset(zone) ==
    CASE zone = "America/Bogota" -> 0 - 5
      [] zone = "Asia/Tokyo" -> 9
      [] OTHER -> 0

PrevDay(y, m, d) ==
    IF d > 1 THEN <<y, m, d - 1>>
    ELSE IF m > 1 THEN <<y, m - 1, DaysInMonth(y, m - 1)>>
    ELSE <<y - 1, 12, 31>>

NextDay(y, m, d) ==
    IF d < DaysInMonth(y, m) THEN <<y, m, d + 1>>
    ELSE IF m < 12 THEN <<y, m + 1, 1>>
    ELSE <<y + 1, 1, 1>>

\* the wall clock k hours later (k in -23..23)
AddHours(ts, k) ==
    IF ts = NaT THEN NaT
    ELSE LET h == Hour(ts) + k
             p == PrevDay(Year(ts), Month(ts), Day(ts))
             n == NextDay(Year(ts), Month(ts), Day(ts))
         IN  IF h < 0 THEN <<p[1], p[2], p[3], h + 24, Minute(ts), Second(ts)>>
             ELSE IF h > 23 THEN <<n[1], n[2], n[3], h - 24, Minute(ts), Second(ts)>>
             ELSE <<Year(ts), Month(ts), Day(ts), h, Minute(ts), Second(ts)>>

\* _ensure_naive of a series localized in zone: dt.tz_convert(None) gives the
\* UTC wall clock and removes the zone
ensure_naive(ts, zone) == AddHours(ts, 0 - UtcOffset(zone))

\* a zone block without the test of pytz: the series is handed on as it is when
\* pytz is missing
TzNormalize_skip_without_pytz(ts, tz_from, tz_to, pytz) ==
    LET any == \E i \in 1..Len(ts) : ts[i] # NaT
        localized == pytz /\ TzTruthy(tz_from) /\ any
    IN  IF pytz /\ TzTruthy(tz_to) /\ any /\ ~localized
        THEN [ok |-> FALSE, err |-> "TypeError", ts |-> ts]
        ELSE [ok |-> TRUE, err |-> "",
              ts |-> IF localized
                     THEN [i \in 1..Len(ts) |-> ensure_naive(ts[i], tz_from)]
                     ELSE ts]

\* the block "Conversion opcional de zona horaria" followed by _ensure_naive,
\* on a series of zone-naive timestamps
TzNormalize(ts, tz_from, tz_to, pytz) ==
    IF (TzTruthy(tz_from) \/ TzTruthy(tz_to)) /\ ~pytz
    THEN [ok |-> FALSE, err |-> "RuntimeError", ts |-> ts]
    ELSE LET any == \E i \in 1..Len(ts) : ts[i] # NaT
             localized == TzTruthy(tz_from) /\ any
         IN  IF TzTruthy(tz_to) /\ any /\ ~localized
             THEN [ok |-> FALSE, err |-> "TypeError", ts |-> ts]
             ELSE [ok |-> TRUE, err |-> "",
                   ts |-> IF localized
                          THEN [i \in 1..Len(ts) |-> ensure_naive(ts[i], tz_from)]
                          ELSE ts]

\* the outcome tz of the zone step, with the column it was computed from
OfColumn(col, tz) == [ok |-> tz.ok, err |-> tz.err, col |-> col, ts |-> tz.ts]

(***************************************************************************)
(* Column resolver: _find_created_col                                      *)
(***************************************************************************)

\* `any(w in key for w in keywords)`
HasKeyword(key, keywords) ==
    \E k \in 1..Len(keywords) : Contains(key, keywords[k])

\* the dict {c.lower(): c for c in columns}: its keys in insertion order are
\* the lower-cased names in order of first occurrence, and the value of a
\* key is the last column that lower-cases to it
LoweredValue(columns, key) ==
    columns[CHOOSE i \in 1..Len(columns) :
                /\ Lower(columns[i]) = key
                /\ \A j \in (i + 1)..Len(columns) : Lower(columns[j]) # key]

\* a scan that returns the first column, in column order, that is a candidate
\* name or holds a keyword
find_created_col_scan_column_order(columns) ==
    LET hit(i) == \/ \E k \in 1..Len(CANDIDATE_CREATED_COLS) :
                         CANDIDATE_CREATED_COLS[k] = columns[i]
                  \/ HasKeyword(Lower(columns[i]), KEYWORDS)
    IN  IF \E i \in 1..Len(columns) : hit(i)
        THEN [ok |-> TRUE,
              col |-> columns[CHOOSE i \in 1..Len(columns) :
                                  hit(i) /\ \A j \in 1..(i - 1) : ~hit(j)]]
        ELSE [ok |-> FALSE, col |-> None]

\* sprinklr.py, lines 54-61: the candidate list, then the keywords, then
\* the KeyError
find_created_col_scan(columns) ==
    IF \E k \in 1..Len(CANDIDATE_CREATED_COLS) :
                In(CANDIDATE_CREATED_COLS[k], columns)
    THEN [ok |-> TRUE,
          col |-> CANDIDATE_CREATED_COLS[
                      CHOOSE k \in 1..Len(CANDIDATE_CREATED_COLS) :
                          /\ In(CANDIDATE_CREATED_COLS[k], columns)
                          /\ \A j \in 1..(k - 1) :
                                 ~In(CANDIDATE_CREATED_COLS[j], columns)]]
    ELSE IF \E i \in 1..Len(columns) : HasKeyword(Lower(columns[i]), KEYWORDS)
    THEN [ok |-> TRUE,
          col |-> LoweredValue(columns,
                      Lower(columns[CHOOSE i \in 1..Len(columns) :
                          /\ HasKeyword(Lower(columns[i]), KEYWORDS)
                          /\ \A j \in 1..(i - 1) :
                                 ~HasKeyword(Lower(columns[j]), KEYWORDS)]))]
    ELSE [ok |-> FALSE, col |-> None]

\* a resolver that never looks at the preferred name
find_created_col_no_override(columns, preferred) ==
    find_created_col_scan(columns)

\* sprinklr.py, lines 51-61
find_created_col(columns, preferred) ==
    IF Truthy(preferred) /\ In(preferred, columns)
    THEN [ok |-> TRUE, col |-> preferred]
    ELSE find_created_col_scan(columns)

\* tubular.py
tubular_find_created_col(columns, preferred) ==
    IF Truthy(preferred) /\ In(preferred, columns)
    THEN [ok |-> TRUE, col |-> preferred]
    ELSE IF \E k \in 1..Len(tubular_CANDIDATE_CREATED_COLS) :
                In(tubular_CANDIDATE_CREATED_COLS[k], columns)
    THEN [ok |-> TRUE,
          col |-> tubular_CANDIDATE_CREATED_COLS[
                      CHOOSE k \in 1..Len(tubular_CANDIDATE_CREATED_COLS) :
                          /\ In(tubular_CANDIDATE_CREATED_COLS[k], columns)
                          /\ \A j \in 1..(k - 1) :
                                 ~In(tubular_CANDIDATE_CREATED_COLS[j], columns)]]
    ELSE IF \E i \in 1..Len(columns) :
                HasKeyword(Lower(columns[i]), tubular_KEYWORDS)
    THEN [ok |-> TRUE,
          col |-> LoweredValue(columns,
                      Lower(columns[CHOOSE i \in 1..Len(columns) :
                          /\ HasKeyword(Lower(columns[i]), tubular_KEYWORDS)
                          /\ \A j \in 1..(i - 1) :
                                 ~HasKeyword(Lower(columns[j]), tubular_KEYWORDS)]))]
    ELSE [ok |-> FALSE, col |-> None]

(***************************************************************************)
(* sprinklr.py: process_dataframe                                          *)
(***************************************************************************)

\* _coerce_datetime, one cell of a column of strings
coerce_datetime(cell) == IF cell = NaN THEN NaT ELSE ToDatetime(cell, FALSE)

\* date_series, one value (line 119 overwrites the value of lines 114-116)
sprinklr_date_series(ts) == Strftime_dmy(ts)

\* hora_series, one value
sprinklr_hora_series(ts) == HoraOf(ts)

\* the list `ordered` of line 160
sprinklr_ordered(cols) ==
    <<N_date, N_hora>> \o SelectSeq(cols, LAMBDA c : c \notin {N_date, N_hora})

\* lines 96-111: the column found, its cells parsed, the zone step
sprinklr_timestamps(d, o) ==
    LET r == find_created_col(d.cols, o.created_col)
        out1 == DropCols(d, {N_Sender_Profile_Image_Url, N_Associated_Cases})
    IN  IF ~r.ok \/ ~HasCol(out1, r.col)
        THEN [ok |-> FALSE, err |-> "KeyError", col |-> None, ts |-> <<>>]
        ELSE LET parsed == [i \in 1..NRows(out1) |->
                               coerce_datetime(Column(out1, r.col)[i])]
             IN  OfColumn(r.col, TzNormalize(parsed, o.tz_from, o.tz_to, o.pytz))

\* lines 112-158, once the timestamps ts of column col are known: the derived
\* fields inserted in out1, the original column dropped when asked
sprinklr_insert(out1, col, ts, drop_original) ==
    LET date_series == [i \in 1..Len(ts) |-> sprinklr_date_series(ts[i])]
        hora_series == [i \in 1..Len(ts) |-> sprinklr_hora_series(ts[i])]
        out2 == SetColumn(out1, col, [i \in 1..Len(ts) |-> DtCell(ts[i])])
        out3 == DropCols(out2, {N_hora, N_date, N_tag})
        out4 == InsertFront(InsertFront(out3, N_hora, hora_series),
                            N_date, date_series)
    IN  IF drop_original /\ ~HasCol(out4, col)
        THEN [ok |-> FALSE, err |-> "KeyError", table |-> EmptyTable]
        ELSE [ok |-> TRUE, err |-> "",
              table |-> IF drop_original THEN DropCols(out4, {col}) ELSE out4]

\* lines 97-158 with the outcome t of the resolution and parsing
sprinklr_derive_from(d, o, t) ==
    IF ~t.ok THEN [ok |-> FALSE, err |-> t.err, table |-> EmptyTable]
    ELSE sprinklr_insert(
             DropCols(d, {N_Sender_Profile_Image_Url, N_Associated_Cases}),
             t.col, t.ts, o.drop_original)

\* lines 97-158: the table with the derived fields inserted and the original
\* timestamp column dropped when asked
sprinklr_derive(d, o) == sprinklr_derive_from(d, o, sprinklr_timestamps(d, o))

\* lines 160-161, dv being the outcome of the lines before: an exception
\* raised there leaves process_dataframe
sprinklr_project(dv, o) ==
    IF ~dv.ok THEN Raised(dv.err, <<>>)
    ELSE LET ordered == sprinklr_ordered(dv.table.cols)
         IN  IF \E k \in 1..Len(ordered) : ~HasCol(dv.table, ordered[k])
             THEN Raised("KeyError", <<>>)
             ELSE Returned(SelectCols(dv.table, ordered), <<>>)

sprinklr_process_dataframe(d, o) == sprinklr_project(sprinklr_derive(d, o), o)

(***************************************************************************)
(* tubular.py: process_dataframe                                           *)
(***************************************************************************)

\* lines 116-127, one cell: astype(str), the AM/PM normalization, to_datetime
\* with dayfirst=True
tubular_parse(cell) == ToDatetime(NormalizeAmPm(AsStr(cell)), TRUE)

\* date_series, one value
tubular_date_series(ts) == DateMDY(ts)

\* hora_series, one value: the hour floored, then formatted
tubular_hora_series(ts) == HoraOf(FloorHour(ts))

\* "Columnas que siempre mantenemos" (line 197, and line 218)
tubular_fixed_cols == <<N_date, N_hora, N_tag, N_tag_text>>

RECURSIVE tubular_final_cols(_, _, _, _)
\* the loop of lines 200-211 over the requested names: the list final_cols
\* and the names reported with [WARN]
tubular_final_cols(available, requested, final, warns) ==
    IF requested = <<>> THEN [final |-> final, warns |-> warns]
    ELSE LET req == Head(requested)
         IN  IF In(req, available)
             THEN tubular_final_cols(available, Tail(requested),
                      IF In(req, final) THEN final ELSE Append(final, req), warns)
             ELSE IF \E i \in 1..Len(available) : Lower(available[i]) = Lower(req)
             THEN LET actual == LoweredValue(available, Lower(req))
                  IN  tubular_final_cols(available, Tail(requested),
                          IF In(actual, final) THEN final ELSE Append(final, actual),
                          warns)
             ELSE tubular_final_cols(available, Tail(requested), final,
                                     Append(warns, req))

\* the list `ordered` of line 218
tubular_ordered(cols) ==
    tubular_fixed_cols
    \o SelectSeq(cols, LAMBDA c : ~In(c, tubular_fixed_cols))

\* lines 110-137: the column found, its cells parsed, the zone step
tubular_timestamps(d, o) ==
    LET r == tubular_find_created_col(d.cols, o.created_col)
    IN  IF ~r.ok THEN [ok |-> FALSE, err |-> "KeyError", col |-> None, ts |-> <<>>]
        ELSE LET parsed == [i \in 1..NRows(d) |-> tubular_parse(Column(d, r.col)[i])]
             IN  OfColumn(r.col, TzNormalize(parsed, o.tz_from, o.tz_to, o.pytz))

\* lines 139-185, once the timestamps ts of column col are known
tubular_insert(d, col, ts, drop_original) ==
    LET date_series == [i \in 1..Len(ts) |-> tubular_date_series(ts[i])]
        hora_series == [i \in 1..Len(ts) |-> tubular_hora_series(ts[i])]
        out2 == SetColumn(d, col, [i \in 1..Len(ts) |-> DtCell(ts[i])])
        out3 == DropCols(out2, {N_hora, N_date})
        out4 == InsertFront(InsertFront(out3, N_hora, hora_series),
                            N_date, date_series)
    IN  IF drop_original /\ ~HasCol(out4, col)
        THEN [ok |-> FALSE, err |-> "KeyError", table |-> EmptyTable]
        ELSE [ok |-> TRUE, err |-> "",
              table |-> IF drop_original THEN DropCols(out4, {col}) ELSE out4]

\* lines 111-185 with the outcome t of the resolution and parsing
tubular_derive_from(d, o, t) ==
    IF ~t.ok THEN [ok |-> FALSE, err |-> t.err, table |-> EmptyTable]
    ELSE tubular_insert(d, t.col, t.ts, o.drop_original)

\* lines 111-185: the table with the derived fields inserted and the original
\* timestamp column dropped when asked
tubular_derive(d, o) == tubular_derive_from(d, o, tubular_timestamps(d, o))

\* the list the projection works from (line 190); NoneList when the branch
\* of line 188 is not taken
tubular_columns_to_keep(o) ==
    IF o.keep_columns # NoneList THEN o.keep_columns
    ELSE IF o.use_default_columns THEN DEFAULT_KEEP_COLUMNS
    ELSE NoneList

\* lines 187-219, dv being the outcome of the lines before: an exception
\* raised there leaves process_dataframe
tubular_project(dv, o) ==
    IF ~dv.ok THEN Raised(dv.err, <<>>)
    ELSE IF tubular_columns_to_keep(o) # NoneList
    THEN LET sel == tubular_final_cols(dv.table.cols, tubular_columns_to_keep(o),
                                       tubular_fixed_cols, <<>>)
         IN  IF \E k \in 1..Len(sel.final) : ~HasCol(dv.table, sel.final[k])
             THEN Raised("KeyError", sel.warns)
             ELSE Returned(SelectCols(dv.table, sel.final), sel.warns)
    ELSE LET ordered == tubular_ordered(dv.table.cols)
         IN  IF \E k \in 1..Len(ordered) : ~HasCol(dv.table, ordered[k])
             THEN Raised("KeyError", <<>>)
             ELSE Returned(SelectCols(dv.table, ordered), <<>>)

tubular_process_dataframe(d, o) == tubular_project(tubular_derive(d, o), o)

(***************************************************************************)
(* youscan.py: process_dataframe                                           *)
(***************************************************************************)

\* _normalize_columns: strip each header and collapse its inner blanks
normalize_columns(t) ==
    [cols |-> [k \in 1..Len(t.cols) |-> CollapseSpaces(Strip(t.cols[k]))],
     rows |-> t.rows]

\* lines 93-95, one cell of created_col
youscan_parse_created(cell) == Strptime_dmY(Strip(AsStr(cell)))

\* lines 103-107, one cell of date_col and one of time_col
youscan_parse_date_time(dcell, tcell) ==
    Strptime_dmY_HM(Strip(AsStr(dcell)) \o <<" ">> \o Strip(AsStr(tcell)))

\* date_series, one value
youscan_date_series(ts) == DateMDY(ts)

\* hora_series (lines 127-132), one cell of time_col; floor_to_hour is a
\* parameter of process_dataframe that its body never reads
youscan_hora_series(tcell, floor_to_hour) ==
    HoraOf(FloorHour(Strptime_HM(Strip(AsStr(tcell)))))

\* a hora_original that is floored to the hour like hora
youscan_hora_original_floored(tcell) ==
    HoraOf(FloorHour(Strptime_HM(Strip(AsStr(tcell)))))

\* hora_original (lines 134-138), one cell of time_col
youscan_hora_original(tcell) == HoraOf(Strptime_HM(Strip(AsStr(tcell))))

\* the fixed names with hora put before date
youscan_fixed_cols_hora_first == <<N_hora, N_date, N_hora_original>>

youscan_fixed_cols == <<N_date, N_hora, N_hora_original>>

\* the list final_cols of line 174
youscan_final_cols(cols, keep_columns) ==
    youscan_fixed_cols \o SelectSeq(keep_columns, LAMBDA c : In(c, cols))

\* the list `ordered` of line 179
youscan_ordered(cols) ==
    youscan_fixed_cols \o SelectSeq(cols, LAMBDA c : ~In(c, youscan_fixed_cols))

\* lines 88-117: the timestamp base and the zone step
youscan_timestamps(d, o) ==
    LET out0 == normalize_columns(d)
        use_created == Truthy(o.created_col) /\ HasCol(out0, o.created_col)
    IN  IF ~use_created /\ (~HasCol(out0, o.date_col) \/ ~HasCol(out0, o.time_col))
        THEN [ok |-> FALSE, err |-> "KeyError", ts |-> <<>>]
        ELSE LET parsed ==
                     IF use_created
                     THEN [i \in 1..NRows(out0) |->
                              youscan_parse_created(Column(out0, o.created_col)[i])]
                     ELSE [i \in 1..NRows(out0) |->
                              youscan_parse_date_time(Column(out0, o.date_col)[i],
                                                      Column(out0, o.time_col)[i])]
             IN  TzNormalize(parsed, o.tz_from, o.tz_to, o.pytz)

\* lines 119-161, once the timestamps ts are known; out0 is the table with
\* its headers normalized
youscan_insert(out0, ts, o) ==
    LET n == NRows(out0)
        date_series == [i \in 1..n |-> youscan_date_series(ts[i])]
        hora_series ==
            [i \in 1..n |-> youscan_hora_series(Column(out0, o.time_col)[i],
                                                o.floor_to_hour)]
        hora_original ==
            [i \in 1..n |-> youscan_hora_original(Column(out0, o.time_col)[i])]
        \* lines 141-143
        out1 == InsertFront(DropCols(out0, {N_hora}), N_hora, hora_series)
        \* lines 146-147
        out2 == IF o.drop_original THEN DropCols(out1, {o.time_col}) ELSE out1
        \* lines 150-154
        out3 == InsertFront(InsertFront(DropCols(out2, {N_date, N_hora}),
                                        N_hora, hora_series),
                            N_date, date_series)
    IN  \* line 155: insert refuses a name that is already a column
        IF HasCol(out3, N_hora_original)
        THEN [ok |-> FALSE, err |-> "ValueError", table |-> EmptyTable]
        ELSE
        LET out4 == InsertFront(out3, N_hora_original, hora_original)
        IN  \* lines 158-161
            [ok |-> TRUE, err |-> "",
             table |-> IF o.drop_original
                       THEN DropCols(out4,
                                {c \in {o.date_col, o.time_col, o.created_col} :
                                     Truthy(c)})
                       ELSE out4]

\* lines 88-161 with the outcome t of the parsing
youscan_derive_from(out0, o, t) ==
    IF ~t.ok THEN [ok |-> FALSE, err |-> t.err, table |-> EmptyTable]
    ELSE IF ~HasCol(out0, o.time_col)
    THEN [ok |-> FALSE, err |-> "KeyError", table |-> EmptyTable]
    ELSE youscan_insert(out0, t.ts, o)

\* lines 88-161: the table with the derived fields inserted and the original
\* columns dropped when asked
youscan_derive(d, o) ==
    youscan_derive_from(normalize_columns(d), o, youscan_timestamps(d, o))

\* the list the projection works from (lines 164-172); NoneList when there
\* is none
youscan_keep_columns(o) ==
    IF o.use_default_columns /\ o.keep_columns = NoneList
    THEN youscan_DEFAULT_KEEP_COLUMNS
    ELSE o.keep_columns

\* lines 163-180, dv being the outcome of the lines before: an exception
\* raised there leaves process_dataframe; the code prints nothing
youscan_project(dv, o) ==
    IF ~dv.ok THEN Raised(dv.err, <<>>)
    ELSE IF youscan_keep_columns(o) # NoneList
    THEN Returned(Reindex(dv.table, youscan_final_cols(dv.table.cols,
                                                       youscan_keep_columns(o))),
                  <<>>)
    ELSE LET ordered == youscan_ordered(dv.table.cols)
         IN  IF \E k \in 1..Len(ordered) : ~HasCol(dv.table, ordered[k])
             THEN Raised("KeyError", <<>>)
             ELSE Returned(SelectCols(dv.table, ordered), <<>>)

youscan_process_dataframe(d, o) == youscan_project(youscan_derive(d, o), o)

(***************************************************************************)
(* Inputs of the model                                                     *)
(***************************************************************************)

\* largest number of rows of an input table
MaxRows == 2

\* column names of the input tables that the code does not name
N_Created == <<"C", "r", "e", "a", "t", "e", "d">>

N_Author == <<"A", "u", "t", "h", "o", "r">>

N_views == <<"v", "i", "e", "w", "s">>

N_VIEWS == <<"V", "I", "E", "W", "S">>

N_Nope == <<"N", "o", "p", "e">>

\* texts of the cells of a timestamp column (sprinklr, tubular)
StampTexts ==
    << <<"9", "/", "5", "/", "2", "0", "2", "5", " ", "6", ":", "0", "5", ":", "0", "0", " ", "p", ".", "m", ".">>,
       <<"n", "/", "a">> >>

\* texts of the cells of the Date (and Created) and Time columns (youscan)
DateTexts ==
    << <<"2", "2", ".", "0", "9", ".", "2", "0", "2", "5">>,
       <<"2", "2", ".", "0", "9", ".", "2", "0", "2", "5">>,
       <<"s", "i", "n", " ", "f", "e", "c", "h", "a">> >>

TimeTexts ==
    << <<"0", "6", ":", "2", "8">>,
       <<"-", "-">>,
       <<"2", "0", ":", "0", "7">> >>

\* the cell of every other column
OtherText == <<"v">>

Profiles == {"sprinklr", "tubular", "youscan"}

\* the columns an input table of a profile is drawn from
Catalogue(p) ==
    CASE p = "sprinklr" ->
             <<N_Created_Time, N_date, N_hora, N_tag, N_Views, N_Associated_Cases>>
      [] p = "tubular" ->
             <<N_Created_Time, N_date, N_tag, N_tag_text, N_Views, N_views>>
      [] OTHER ->
             <<N_Date, N_Time, N_Created, N_Author, N_hora, N_hora_original>>

Reverse(q) == [i \in 1..Len(q) |-> q[Len(q) + 1 - i]]

\* the column lists of the input tables: every selection of the catalogue,
\* in catalogue order and in the reverse order
ColumnLists(p) ==
    LET cat == Catalogue(p)
        pick(I) == SelectSeq(cat, LAMBDA c : IndexOf(cat, c) \in I)
    IN  {pick(I) : I \in SUBSET (1..Len(cat))}
        \cup {Reverse(pick(I)) : I \in SUBSET (1..Len(cat))}

NumSeeds(p) == IF p = "youscan" THEN Len(DateTexts) ELSE Len(StampTexts)

\* the rows of the input tables: a row is drawn by the index of its texts
SeedSeqs(p) ==
    UNION {[1..n -> 1..NumSeeds(p)] : n \in 0..MaxRows}

CellFor(p, c, seed) ==
    IF p = "youscan"
    THEN CASE c \in {N_Date, N_Created} -> DateTexts[seed]
           [] c = N_Time -> TimeTexts[seed]
           [] OTHER -> OtherText
    ELSE IF c \in {N_Created_Time, N_date} THEN StampTexts[seed] ELSE OtherText

MakeTable(p, cols, seeds) ==
    [cols |-> cols,
     rows |-> [i \in 1..Len(seeds) |->
                  [k \in 1..Len(cols) |-> CellFor(p, cols[k], seeds[i])]]]

\* suffix="_limpio" and fmt="xlsx", the defaults of auto_export
S_limpio == <<"_", "l", "i", "m", "p", "i", "o">>

S_xlsx == <<"x", "l", "s", "x">>

S_csv == <<"c", "s", "v">>

\* the keyword arguments of a call; the fields a profile does not take keep
\* the values below
DefaultOpts ==
    [created_col |-> None, date_col |-> N_Date, time_col |-> N_Time,
     tz_from |-> TzNone, tz_to |-> TzNone, pytz |-> TRUE,
     drop_original |-> TRUE, keep_columns |-> NoneList,
     use_default_columns |-> FALSE, floor_to_hour |-> FALSE,
     suffix |-> S_limpio, fmt |-> S_xlsx]

OptionSets(p) ==
    CASE p = "sprinklr" ->
             {[DefaultOpts EXCEPT !.created_col = cc, !.drop_original = dr] :
                  cc \in {N_Created_Time, N_Views}, dr \in BOOLEAN}
      [] p = "tubular" ->
             {[DefaultOpts EXCEPT !.created_col = cc, !.drop_original = dr,
                                  !.keep_columns = kc, !.use_default_columns = ud] :
                  cc \in {N_Created_Time, N_Views}, dr \in BOOLEAN,
                  kc \in {NoneList, <<N_Views, N_Nope>>, <<N_VIEWS>>},
                  ud \in BOOLEAN}
      [] OTHER ->
             {[DefaultOpts EXCEPT !.created_col = cc, !.drop_original = dr,
                                  !.keep_columns = kc, !.use_default_columns = ud,
                                  !.floor_to_hour = fl] :
                  cc \in {None, N_Created}, dr \in BOOLEAN,
                  kc \in {NoneList, <<N_Author, N_Nope>>},
                  ud \in BOOLEAN, fl \in BOOLEAN}

Pending == [status |-> "pending", error |-> "", table |-> EmptyTable, warns |-> <<>>]

(***************************************************************************)
(* One call of process_dataframe                                           *)
(***************************************************************************)

\* no export flow and no command-line run has taken place
NotRun ==
    [status |-> "pending", error |-> "", steps |-> <<>>, written |-> <<>>,
     printed |-> <<>>, args |-> <<>>]

NoBatch ==
    /\ run = NotRun
    /\ files = <<>>
    /\ idx = 0
    /\ outs = <<>>
    /\ log = <<>>
    /\ attempts = <<>>
    /\ pc = "idle"

\* no exception: the resolver returned, or has not been called
NoError == [class |-> "", message |-> <<>>]

NotResolved == [status |-> "pending", col |-> None, error |-> NoError]

Init ==
    /\ profile \in Profiles
    /\ \E cols \in ColumnLists(profile), seeds \in SeedSeqs(profile) :
           df = MakeTable(profile, cols, seeds)
    /\ opts \in OptionSets(profile)
    /\ result = Pending
    /\ resolved = NotResolved
    /\ default_keep_columns = DEFAULT_KEEP_COLUMNS
    /\ NoBatch

\* a body that works on the caller's table itself: what it changes in place
\* is changed for the caller
no_copy(t, changed) == changed

\* `out = df.copy()` (sprinklr.py line 97, tubular.py line 111, youscan.py
\* line 88): the statements that change `out` in place act on the copy, so
\* the caller's table t stays as it is whatever the body makes of `out`
after_copy(t, changed) == t

\* sprinklr.py, lines 97-98: `out` is bound anew by out.drop before any
\* statement changes it in place
sprinklr_in_place(d) == d

\* tubular.py, lines 119-137: `out[col] = ...` puts the timestamps t.ts in
\* the column found, in place; nothing when the resolver raised
tubular_in_place(d, t) ==
    IF t.col = None THEN d
    ELSE SetColumn(d, t.col, [i \in 1..NRows(d) |-> DtCell(t.ts[i])])

\* youscan.py, lines 43 and 141-143: _normalize_columns assigns the headers
\* of its argument in place, and out.insert(0, "hora", ...) acts in place
\* when no column hora was dropped before; hora_series are the values
youscan_in_place(d, o) ==
    LET out0 == normalize_columns(d)
    IN  IF HasCol(out0, o.time_col) /\ youscan_timestamps(d, o).ok
           /\ ~HasCol(out0, N_hora)
        THEN InsertFront(out0, N_hora,
                 [i \in 1..NRows(out0) |->
                     youscan_hora_series(Column(out0, o.time_col)[i],
                                         o.floor_to_hour)])
        ELSE out0

sprinklr_call ==
    /\ profile = "sprinklr"
    /\ result.status = "pending"
    /\ pc = "idle"
    /\ result' = sprinklr_process_dataframe(df, opts)
    /\ df' = after_copy(df, sprinklr_in_place(df))
    /\ UNCHANGED <<profile, opts, batchVars, resolved, run, default_keep_columns>>

\* line 190 at the moment of the call: keep_columns None with
\* use_default_columns binds columns_to_keep to the module list as it is now
tubular_bound_opts(o, module_list) ==
    IF o.keep_columns = NoneList /\ o.use_default_columns
    THEN [o EXCEPT !.keep_columns = module_list]
    ELSE o

\* what the appends would do were final_cols the list columns_to_keep names
aliased_final_cols(columns_to_keep, final_cols) == final_cols

\* final_cols of line 197 is bound to a list of its own, so the appends of
\* lines 203 and 208 leave the list columns_to_keep names as it was
fresh_final_cols(columns_to_keep, final_cols) == columns_to_keep

\* final_cols when line 211 is left, for the table dv the lines before built
tubular_final_cols_built(dv, columns_to_keep) ==
    tubular_final_cols(dv.table.cols, columns_to_keep, tubular_fixed_cols, <<>>).final

\* the list columns_to_keep names, after the call: touched only when the
\* lines before line 188 did not raise
tubular_keep_after(d, o, columns_to_keep) ==
    IF ~tubular_timestamps(d, o).ok THEN columns_to_keep
    ELSE IF ~tubular_derive(d, o).ok THEN columns_to_keep
    ELSE fresh_final_cols(columns_to_keep,
             tubular_final_cols_built(tubular_derive(d, o), columns_to_keep))

tubular_call ==
    /\ profile = "tubular"
    /\ result.status = "pending"
    /\ pc = "idle"
    /\ result' = tubular_process_dataframe(df, tubular_bound_opts(opts, default_keep_columns))
    /\ df' = after_copy(df, tubular_in_place(df, tubular_timestamps(df, opts)))
    /\ opts' = IF opts.keep_columns # NoneList
               THEN [opts EXCEPT !.keep_columns = tubular_keep_after(df, opts, @)]
               ELSE opts
    /\ default_keep_columns' =
           IF opts.keep_columns = NoneList /\ opts.use_default_columns
           THEN tubular_keep_after(df, opts, default_keep_columns)
           ELSE default_keep_columns
    /\ UNCHANGED <<profile, batchVars, resolved, run>>

youscan_call ==
    /\ profile = "youscan"
    /\ result.status = "pending"
    /\ pc = "idle"
    /\ result' = youscan_process_dataframe(df, opts)
    /\ df' = after_copy(df, youscan_in_place(df, opts))
    /\ UNCHANGED <<profile, opts, batchVars, resolved, run, default_keep_columns>>

Next == sprinklr_call \/ tubular_call \/ youscan_call

Spec == Init /\ [][Next]_vars

(***************************************************************************)
(* The column resolver alone                                               *)
(***************************************************************************)

\* largest number of columns of a table handed to the resolver
MaxResolveCols == 3

N_empty == <<>>

N_Fecha == <<"F", "e", "c", "h", "a">>

N_Publish_Date == <<"P", "u", "b", "l", "i", "s", "h", " ", "D", "a", "t", "e">>

N_publish_date == <<"p", "u", "b", "l", "i", "s", "h", " ", "d", "a", "t", "e">>

\* the names the columns and the preferred name are drawn from
ResolveNames ==
    {N_Created_Time, N_Time, N_Fecha, N_Publish_Date, N_publish_date,
     N_Views, N_date, N_empty}

\* the sequences of distinct names of at most n names
DistinctSeqs(S, n) ==
    UNION {{q \in [1..k -> S] : \A i, j \in 1..k : i # j => q[i] # q[j]} :
               k \in 0..n}

ResolveInit ==
    /\ profile \in {"sprinklr", "tubular"}
    /\ \E cols \in DistinctSeqs(ResolveNames, MaxResolveCols) :
           df = [cols |-> cols, rows |-> <<>>]
    /\ \E pref \in ResolveNames \cup {None} :
           opts = [DefaultOpts EXCEPT !.created_col = pref]
    /\ result = Pending
    /\ resolved = NotResolved
    /\ default_keep_columns = DEFAULT_KEEP_COLUMNS
    /\ NoBatch

\* sprinklr.py, line 61, and tubular.py, line 67: the exception of the
\* resolver, a KeyError built from one string literal
find_created_col_KeyError ==
    [class |-> "KeyError",
     message |->
       <<"N", "o", " ", "p", "u", "d", "e", " ", "e", "n", "c", "o",
         "n", "t", "r", "a", "r", " ", "l", "a", " ", "c", "o", "l",
         "u", "m", "n", "a", " ", "d", "e", " ", "f", "e", "c", "h",
         "a", "/", "h", "o", "r", "a", ".", " ", "E", "s", "p", "e",
         "c", "i", "f", "i", "c", "a", " ", "'", "c", "r", "e", "a",
         "t", "e", "d", "_", "c", "o", "l", "'", ".">>]

ResolveOutcome(r) ==
    [status |-> IF r.ok THEN "returned" ELSE "raised", col |-> r.col,
     error |-> IF r.ok THEN NoError ELSE find_created_col_KeyError]

sprinklr_resolve ==
    /\ profile = "sprinklr"
    /\ resolved.status = "pending"
    /\ resolved' = ResolveOutcome(find_created_col(df.cols, opts.created_col))
    /\ UNCHANGED <<callVars, batchVars, run>>

tubular_resolve ==
    /\ profile = "tubular"
    /\ resolved.status = "pending"
    /\ resolved' = ResolveOutcome(tubular_find_created_col(df.cols, opts.created_col))
    /\ UNCHANGED <<callVars, batchVars, run>>

ResolveNext == sprinklr_resolve \/ tubular_resolve

ResolveSpec == ResolveInit /\ [][ResolveNext]_vars

(***************************************************************************)
(* Files, auto_export and batch_export                                     *)
(***************************************************************************)

\* largest number of files of a batch
MaxFiles == 3

X_csv == <<".", "c", "s", "v">>

X_xlsx == <<".", "x", "l", "s", "x">>

X_xls == <<".", "x", "l", "s">>

\* a file: its stem and extension, whether it can be read, and the table
\* it holds
File(stem, ext, exists, table) ==
    [stem |-> stem, ext |-> ext, exists |-> exists, table |-> table]

\* the files a batch is drawn from: a good export, a file of an unsupported
\* format, a workbook without the timestamp columns, a path that is no file
FileCatalogue(p) ==
    LET good == CASE p = "sprinklr" -> <<N_Created_Time, N_Views>>
                  [] p = "tubular" -> <<N_Created_Time, N_tag, N_tag_text, N_Views>>
                  [] OTHER -> <<N_Date, N_Time, N_Author>>
        other == IF p = "youscan" THEN <<N_Author>> ELSE <<N_Views>>
    IN  << File(<<"a">>, X_csv, TRUE, MakeTable(p, good, <<1, 2>>)),
           File(<<"b">>, <<".", "t", "x", "t">>, TRUE, EmptyTable),
           File(<<"c">>, <<".", "X", "L", "S", "X">>, TRUE, MakeTable(p, other, <<1>>)),
           File(<<"d">>, X_csv, FALSE, EmptyTable) >>

\* _read_any
read_any(f) ==
    IF Lower(f.ext) \in {X_xlsx, X_xls, X_csv}
    THEN IF f.exists THEN [ok |-> TRUE, err |-> "", table |-> f.table]
         ELSE [ok |-> FALSE, err |-> "FileNotFoundError", table |-> EmptyTable]
    ELSE [ok |-> FALSE, err |-> "ValueError", table |-> EmptyTable]

\* _derive_out_path: <stem><suffix>.<ext>
derive_out_path(f, suffix, fmt) ==
    [stem |-> f.stem \o suffix,
     ext |-> IF Lower(fmt) = S_csv THEN X_csv ELSE X_xlsx]

\* export_df: whether the extension of out_path is one it writes
export_df(out_path) ==
    IF Lower(out_path.ext) \in {X_xlsx, X_xls, X_csv}
    THEN [ok |-> TRUE, err |-> ""]
    ELSE [ok |-> FALSE, err |-> "ValueError"]

\* the rest of auto_export once process_file has an outcome r
AutoExportOutcome(r, out_path) ==
    IF r.status = "raised"
    THEN [ok |-> FALSE, err |-> r.error, path |-> out_path]
    ELSE [ok |-> export_df(out_path).ok, err |-> export_df(out_path).err,
          path |-> out_path]

\* process_file of each module
sprinklr_process_file(f, o) ==
    IF read_any(f).ok THEN sprinklr_process_dataframe(read_any(f).table, o)
    ELSE Raised(read_any(f).err, <<>>)

tubular_process_file(f, o) ==
    IF read_any(f).ok THEN tubular_process_dataframe(read_any(f).table, o)
    ELSE Raised(read_any(f).err, <<>>)

youscan_process_file(f, o) ==
    IF read_any(f).ok
    THEN youscan_process_dataframe(normalize_columns(read_any(f).table), o)
    ELSE Raised(read_any(f).err, <<>>)

\* auto_export of each module
sprinklr_auto_export(f, o) ==
    AutoExportOutcome(sprinklr_process_file(f, o), derive_out_path(f, o.suffix, o.fmt))

tubular_auto_export(f, o) ==
    AutoExportOutcome(tubular_process_file(f, o), derive_out_path(f, o.suffix, o.fmt))

youscan_auto_export(f, o) ==
    AutoExportOutcome(youscan_process_file(f, o), derive_out_path(f, o.suffix, o.fmt))

auto_export(p, f, o) ==
    CASE p = "sprinklr" -> sprinklr_auto_export(f, o)
      [] p = "tubular" -> tubular_auto_export(f, o)
      [] OTHER -> youscan_auto_export(f, o)

\* the keyword defaults of batch_export of each module
BatchOpts(p) ==
    CASE p = "sprinklr" -> [DefaultOpts EXCEPT !.created_col = N_Created_Time]
      [] p = "tubular" -> [DefaultOpts EXCEPT !.created_col = N_Created_Time,
                                              !.use_default_columns = TRUE]
      [] OTHER -> DefaultOpts

\* the line printed by the except clause: the marker, the file, the reason
Warn(f, err) == [marker |-> "[WARN]", file |-> <<f.stem, f.ext>>, reason |-> err]

BatchInit ==
    /\ profile \in Profiles
    /\ \E fmt \in {S_xlsx, S_csv} : opts = [BatchOpts(profile) EXCEPT !.fmt = fmt]
    /\ \E n \in 0..MaxFiles :
           \E pick \in [1..n -> 1..Len(FileCatalogue(profile))] :
               files = [i \in 1..n |-> FileCatalogue(profile)[pick[i]]]
    /\ idx = 0
    /\ outs = <<>>
    /\ log = <<>>
    /\ attempts = <<>>
    /\ pc = "loop"
    /\ df = EmptyTable
    /\ result = Pending
    /\ resolved = NotResolved
    /\ default_keep_columns = DEFAULT_KEEP_COLUMNS
    /\ run = NotRun

\* a loop that records a path for every file, failed or not
batch_outs_always(r, prev) == Append(prev, r.path)

\* the list outs after the body of the loop ran on file f with outcome r
batch_outs(r, prev) == IF r.ok THEN Append(prev, r.path) ELSE prev

\* what is printed after the body of the loop ran on file f with outcome r
batch_log(f, r, prev) == IF r.ok THEN prev ELSE Append(prev, Warn(f, r.err))

\* a loop without the try: the first failure ends it
batch_pc_abort(r) == IF r.ok THEN "loop" ELSE "done"

\* where the loop stands after the body ran with outcome r: the except
\* clause swallows the exception and the loop goes on
batch_pc(r) == "loop"

\* the body of the loop on file f, r being the outcome of auto_export(f)
batch_export_body(f, r) ==
    /\ attempts' = Append(attempts, f)
    /\ outs' = batch_outs(r, outs)
    /\ log' = batch_log(f, r, log)
    /\ pc' = batch_pc(r)

\* one iteration of `for f in files`: try auto_export, append or print
batch_export_iteration ==
    /\ pc = "loop"
    /\ idx < Len(files)
    /\ batch_export_body(files[idx + 1], auto_export(profile, files[idx + 1], opts))
    /\ idx' = idx + 1
    /\ UNCHANGED <<callVars, files, resolved, run>>

\* `return outs` once the loop is exhausted
batch_export_return ==
    /\ pc = "loop"
    /\ idx = Len(files)
    /\ pc' = "done"
    /\ UNCHANGED <<callVars, files, idx, outs, log, attempts, resolved, run>>

BatchNext == batch_export_iteration \/ batch_export_return

BatchSpec == BatchInit /\ [][BatchNext]_vars

\* a step of the loop as its control state shows it: an iteration moves on
\* to the next file, the exhausted loop returns. Every step of BatchNext is
\* such a step, and BatchNext has a step wherever one is possible: the body
\* of the loop is total, an exception being an outcome of auto_export.
batch_export_advance ==
    /\ pc = "loop"
    /\ \/ idx < Len(files) /\ idx' = idx + 1 /\ pc' \in {"loop", "done"}
       \/ idx = Len(files) /\ idx' = idx /\ pc' = "done"

\* the loop is one thread that runs on: auto_export returns or raises, and
\* the interpreter then takes the next step of the loop
BatchFairSpec == BatchSpec /\ WF_<<idx, pc>>(batch_export_advance)

(***************************************************************************)
(* Properties of one call of process_dataframe (specification Spec)        *)
(***************************************************************************)

\* Missing: NaN, None or NaT
IsMissing(v) == v \in {NaN, None, NaT}

\* the normalized timestamps of the call of the current state
CallTimestamps ==
    CASE profile = "sprinklr" -> sprinklr_timestamps(df, opts).ts
      [] profile = "tubular" -> tubular_timestamps(df, opts).ts
      [] OTHER -> youscan_timestamps(df, opts).ts

\* the post-derivation table of the call of the current state
CallDerived ==
    CASE profile = "sprinklr" -> sprinklr_derive(df, opts)
      [] profile = "tubular" -> tubular_derive(df, opts)
      [] OTHER -> youscan_derive(df, opts)

\* the list the projection of the call works from; NoneList when none
KeepList ==
    CASE profile = "tubular" -> tubular_columns_to_keep(opts)
      [] profile = "youscan" -> youscan_keep_columns(opts)
      [] OTHER -> NoneList

\* the cells of the derived columns of the returned table
DateCells == Column(result.table, N_date)

HoraCells == Column(result.table, N_hora)

\* row i of the call has a parseable timestamp
Parseable(i) == CallTimestamps[i] # NaT

\* C1: whenever process_dataframe returns, in any of the three profiles, the
\* returned table has exactly as many rows as the input table, rows with an
\* unparseable timestamp cell included.
C1_RowCountPreserved ==
    result.status = "returned" => NRows(result.table) = NRows(df)

\* C1 happens: a call on two rows, one of them unparseable, returned
C1_TwoRowsReturned ==
    /\ result.status = "returned"
    /\ NRows(df) >= 2
    /\ \E i, j \in 1..NRows(df) : ~Parseable(i) /\ Parseable(j)

\* C2: in every profile, a row whose normalized timestamp is Missing has a
\* Missing date and a Missing hora in the returned table (date is never a
\* text built from missing components).
C2_UnparseableGivesMissing ==
    result.status = "returned" =>
        \A i \in 1..NRows(df) :
            ~Parseable(i) => IsMissing(DateCells[i]) /\ IsMissing(HoraCells[i])

\* a requested name that no column of the table matches, exactly or by case
MatchesNoColumn(name, cols) ==
    \A k \in 1..Len(cols) : Lower(cols[k]) # Lower(name)

\* C3: in tubular and youscan, when the list of the projection (explicit or
\* default) holds a name that is no column of the post-derivation table,
\* process_dataframe does not raise, the returned table omits that column,
\* and a diagnostic naming it is emitted.
C3_AbsentKeepColumnReported ==
    (/\ result.status # "pending"
     /\ profile \in {"tubular", "youscan"}
     /\ KeepList # NoneList
     /\ CallDerived.ok)
    => \A k \in 1..Len(KeepList) :
           MatchesNoColumn(KeepList[k], CallDerived.table.cols)
           => /\ result.status = "returned"
              /\ ~HasCol(result.table, KeepList[k])
              /\ In(KeepList[k], result.warns)

\* C4: every returned table starts with date, then hora, then (youscan only)
\* hora_original, and every other column comes after them.
C4_DerivedColumnsFirst ==
    result.status = "returned" =>
        LET first == IF profile = "youscan"
                     THEN <<N_date, N_hora, N_hora_original>>
                     ELSE <<N_date, N_hora>>
        IN  /\ Len(result.table.cols) >= Len(first)
            /\ SubSeq(result.table.cols, 1, Len(first)) = first

\* C4 happens: a youscan table that already had a hora column, given with
\* its columns in another order, returned unprojected with other columns
C4_ReorderedReturned ==
    /\ result.status = "returned"
    /\ profile = "youscan"
    /\ KeepList = NoneList
    /\ HasCol(df, N_hora)
    /\ df.cols[1] # N_hora
    /\ Len(result.table.cols) > 3

T_0628 == <<"0", "6", ":", "2", "8">>

T_2007 == <<"2", "0", ":", "0", "7">>

D_22_09_2025 == <<"2", "2", ".", "0", "9", ".", "2", "0", "2", "5">>

\* C7: in youscan with split Date and Time columns, floor_to_hour decides:
\* without it Date "22.09.2025" and Time "06:28" give date "9/22/2025" and
\* hora "6:28:00 AM"; with it the time 20:07 gives hora "8:00:00 PM".
C7_FloorToHourDecides ==
    (/\ result.status = "returned"
     /\ profile = "youscan"
     /\ ~(Truthy(opts.created_col) /\ HasCol(df, opts.created_col)))
    => \A i \in 1..NRows(df) :
           /\ (/\ ~opts.floor_to_hour
               /\ Column(df, N_Date)[i] = D_22_09_2025
               /\ Column(df, N_Time)[i] = T_0628)
              => /\ DateCells[i] = <<"9", "/", "2", "2", "/", "2", "0", "2", "5">>
                 /\ HoraCells[i] = <<"6", ":", "2", "8", ":", "0", "0", " ", "A", "M">>
           /\ (/\ opts.floor_to_hour
               /\ Column(df, N_Date)[i] = D_22_09_2025
               /\ Column(df, N_Time)[i] = T_2007)
              => HoraCells[i] = <<"8", ":", "0", "0", ":", "0", "0", " ", "P", "M">>

\* month/day/year of a timestamp, each component as its natural number
MonthDayYear(ts) ==
    StrOfNat(Month(ts)) \o <<"/">> \o StrOfNat(Day(ts)) \o <<"/">>
    \o StrOfNat(Year(ts))

\* C8: in every profile, the date of a row with a parseable timestamp is
\* month/day/year, the year with four digits, no leading zero on the month
\* or the day.
C8_DateIsMonthDayYear ==
    result.status = "returned" =>
        \A i \in 1..NRows(df) :
            Parseable(i) => /\ DateCells[i] = MonthDayYear(CallTimestamps[i])
                            /\ Len(StrOfNat(Year(CallTimestamps[i]))) = 4

\* the text s is h:mm:ss AM or h:mm:ss PM with h the hour number hr written
\* without a leading zero, and the suffix ap
IsHoraOf(s, hr, ap) ==
    LET n == Len(StrOfNat(hr))
    IN  /\ Len(s) = n + 9
        /\ SubSeq(s, 1, n) = StrOfNat(hr)
        /\ s[n + 1] = ":" /\ s[n + 4] = ":" /\ s[n + 7] = " "
        /\ \A k \in {n + 2, n + 3, n + 5, n + 6} : IsDigit(s[k])
        /\ DigitVal(s[n + 2]) < 6 /\ DigitVal(s[n + 5]) < 6
        /\ SubSeq(s, n + 8, n + 9) = ap

\* C9: in every profile, the hora of a row with a parseable timestamp is
\* h:mm:ss AM|PM, the hour in 1..12 without a leading zero, hour 0 written
\* 12 with AM and hour 12 written 12 with PM.
C9_HoraIsTwelveHourClock ==
    result.status = "returned" =>
        \A i \in 1..NRows(df) :
            Parseable(i) =>
                IsHoraOf(HoraCells[i],
                         IF Hour(CallTimestamps[i]) % 12 = 0 THEN 12
                         ELSE Hour(CallTimestamps[i]) % 12,
                         IF Hour(CallTimestamps[i]) < 12 THEN <<"A", "M">>
                         ELSE <<"P", "M">>)

(***************************************************************************)
(* Properties of batch_export (specifications BatchSpec, BatchFairSpec)    *)
(***************************************************************************)

\* the outcome of auto_export on a file of the batch of the current state
Exported(f) == auto_export(profile, f, opts)

\* C5: the files are attempted one after another in input order; a failure
\* does not end the batch, so every file is attempted exactly once, and
\* batch_export returns.
C5_EveryFileAttemptedOnce ==
    /\ [](attempts = SubSeq(files, 1, idx))
    /\ [][pc = "loop" /\ idx < Len(files) => idx' = idx + 1 /\ pc' = "loop"]_<<idx, pc>>
    /\ [](pc = "done" => attempts = files)
    /\ <>(pc = "done")

\* C5 happens: a batch returned whose first file failed and whose second
\* file was exported
C5_FailureThenSuccess ==
    /\ pc = "done"
    /\ Len(files) >= 2
    /\ ~Exported(files[1]).ok
    /\ Exported(files[2]).ok
    /\ attempts = files

\* the paths of the files of q that auto_export exports, in the order of q
SuccessPaths(q) ==
    LET good == SelectSeq(q, LAMBDA f : Exported(f).ok)
    IN  [i \in 1..Len(good) |-> Exported(good[i]).path]

\* the reports of the files of q that auto_export fails on, in the order of q
FailureReports(q) ==
    LET bad == SelectSeq(q, LAMBDA f : ~Exported(f).ok)
    IN  [i \in 1..Len(bad) |->
            [marker |-> "[WARN]", file |-> <<bad[i].stem, bad[i].ext>>,
             reason |-> Exported(bad[i]).err]]

\* C6: the list batch_export returns holds exactly the output paths of the
\* files auto_export completed on, in input order; a failed file adds no
\* entry and gives one [WARN] report naming the file and the reason.
C6_ReturnedListIsSuccesses ==
    pc = "done" => /\ outs = SuccessPaths(files)
                   /\ log = FailureReports(files)

\* C6 happens: a returned batch with two exported files and a failed one
\* between them
C6_MixedBatchReturned ==
    /\ pc = "done"
    /\ Len(files) = 3
    /\ Exported(files[1]).ok /\ ~Exported(files[2]).ok /\ Exported(files[3]).ok
    /\ Len(outs) = 2
    /\ Len(log) = 1

(***************************************************************************)
(* Properties of _find_created_col (specification ResolveSpec)             *)
(***************************************************************************)

\* C10 as stated: resolving with an explicit preferred name that is exactly
\* one of the columns returns that name, whatever candidate names or keyword
\* columns are present (sprinklr and tubular).
C10_PreferredWins ==
    (/\ resolved.status # "pending"
     /\ opts.created_col # None
     /\ In(opts.created_col, df.cols))
    => resolved.status = "returned" /\ resolved.col = opts.created_col

\* C10, for a preferred name that is not the empty string: resolving with
\* an explicit non-empty preferred name that is exactly one of the columns
\* returns that name, whatever candidate names or keyword columns are
\* present (sprinklr and tubular).
C10_NonEmptyPreferredWins ==
    (/\ resolved.status # "pending"
     /\ opts.created_col # None
     /\ opts.created_col # <<>>
     /\ In(opts.created_col, df.cols))
    => resolved.status = "returned" /\ resolved.col = opts.created_col

\* C10 happens: the preferred name, neither a candidate nor a keyword
\* column, was returned although a candidate column comes before it
C10_OverrideBeatsCandidate ==
    /\ resolved.status = "returned"
    /\ opts.created_col = N_Views
    /\ resolved.col = N_Views
    /\ Len(df.cols) >= 2
    /\ df.cols[1] = N_Created_Time

(***************************************************************************)
(* The failure of the resolver                                             *)
(***************************************************************************)

\* the name of a profile, as a string of characters
ProfileName(p) ==
    IF p = "sprinklr" THEN <<"s", "p", "r", "i", "n", "k", "l", "r">>
    ELSE IF p = "tubular" THEN <<"t", "u", "b", "u", "l", "a", "r">>
    ELSE <<"y", "o", "u", "s", "c", "a", "n">>

\* the candidate names and the keywords the profile searches
CandidatesOf(p) ==
    IF p = "tubular" THEN tubular_CANDIDATE_CREATED_COLS
    ELSE CANDIDATE_CREATED_COLS

KeywordsOf(p) == IF p = "tubular" THEN tubular_KEYWORDS ELSE KEYWORDS

\* neither the preferred name, nor a candidate, nor a keyword matches
NothingMatches ==
    /\ ~(Truthy(opts.created_col) /\ In(opts.created_col, df.cols))
    /\ \A k \in 1..Len(CandidatesOf(profile)) :
           ~In(CandidatesOf(profile)[k], df.cols)
    /\ \A i \in 1..Len(df.cols) :
           ~HasKeyword(Lower(df.cols[i]), KeywordsOf(profile))

\* C11: when neither the preferred name, nor a candidate name, nor a
\* keyword matches a column, the resolver fails with a ColumnNotFoundError
\* whose message names the searched profile and the available columns, and
\* it returns no column.
C11_NoMatchRaisesColumnNotFound ==
    (resolved.status # "pending" /\ NothingMatches)
    => /\ resolved.status = "raised"
       /\ resolved.col = None
       /\ resolved.error.class = "ColumnNotFoundError"
       /\ Contains(Lower(resolved.error.message), ProfileName(profile))
       /\ \A i \in 1..Len(df.cols) :
              Contains(resolved.error.message, df.cols[i])

(***************************************************************************)
(* Absent timestamp columns                                                *)
(***************************************************************************)

\* the step of the call that looks the timestamp columns up and parses them
CallTimestampStep ==
    CASE profile = "sprinklr" -> sprinklr_timestamps(df, opts)
      [] profile = "tubular" -> tubular_timestamps(df, opts)
      [] OTHER -> youscan_timestamps(df, opts)

\* the cells of the timestamp columns were parsed: the step got past the
\* look-up of its columns
CellsParsed == CallTimestampStep.ok \/ CallTimestampStep.err # "KeyError"

\* a timestamp column the call is configured with is not in the table
ConfiguredColumnAbsent ==
    CASE profile = "sprinklr" -> ~find_created_col(df.cols, opts.created_col).ok
      [] profile = "tubular" ->
             ~tubular_find_created_col(df.cols, opts.created_col).ok
      [] OTHER ->
             LET out0 == normalize_columns(df)
                 supplied == Truthy(opts.created_col)
             IN  \/ supplied /\ ~HasCol(out0, opts.created_col)
                 \/ ~supplied /\ ~HasCol(out0, opts.date_col)
                 \/ ~HasCol(out0, opts.time_col)

\* C12: in every profile, when a configured timestamp column cannot be found
\* (the single timestamp column; in the split profile the date column, the
\* time column or a supplied created_col), process_dataframe raises before
\* any cell is parsed, and the absent column is never silently replaced by
\* another source of the timestamp.
C12_AbsentColumnRaisesBeforeParsing ==
    (result.status # "pending" /\ ConfiguredColumnAbsent)
    => /\ result.status = "raised"
       /\ result.error = "KeyError"
       /\ ~CellsParsed

(***************************************************************************)
(* Tables that already hold the derived fields                             *)
(***************************************************************************)

\* the names of the derived fields of the profile, in their fixed order
DerivedNames ==
    IF profile = "youscan" THEN <<N_date, N_hora, N_hora_original>>
    ELSE <<N_date, N_hora>>

\* the input table already has a column of every derived name
AlreadyDerived == \A k \in 1..Len(DerivedNames) : HasCol(df, DerivedNames[k])

\* the number of columns of the list cols that are named name
Occurrences(name, cols) == Cardinality({k \in 1..Len(cols) : cols[k] = name})

\* the date of row i, derived from the timestamp of the row
DerivedDate(i) ==
    CASE profile = "sprinklr" -> sprinklr_date_series(CallTimestamps[i])
      [] profile = "tubular" -> tubular_date_series(CallTimestamps[i])
      [] OTHER -> youscan_date_series(CallTimestamps[i])

\* C13: insertion is idempotent: when the input table already has columns
\* named date, hora (and hora_original in youscan) and its timestamp columns
\* are found, process_dataframe does not raise, and in the returned table each
\* of these names occurs exactly once, holds the newly derived values, and
\* they come first in the order date, hora[, hora_original].
C13_InsertionIdempotent ==
    (result.status # "pending" /\ AlreadyDerived /\ ~ConfiguredColumnAbsent)
    => /\ result.status = "returned"
       /\ \A k \in 1..Len(DerivedNames) :
              Occurrences(DerivedNames[k], result.table.cols) = 1
       /\ SubSeq(result.table.cols, 1, Len(DerivedNames)) = DerivedNames
       /\ \A i \in 1..NRows(result.table) : DateCells[i] = DerivedDate(i)

(***************************************************************************)
(* Projection on an explicit keep_columns                                  *)
(***************************************************************************)

\* the call was given a keep_columns list
ExplicitKeep == profile \in {"tubular", "youscan"} /\ opts.keep_columns # NoneList

\* the name c matches a column of cols, exactly or but for letter case
MatchesSomeColumn(c, cols) ==
    \E k \in 1..Len(cols) : Lower(cols[k]) = Lower(c)

\* the columns of the returned table after the derived fields
AfterDerived ==
    SubSeq(result.table.cols, Len(DerivedNames) + 1, Len(result.table.cols))

\* the names of keep_columns that match a column of the post-derivation table
KeptRequests ==
    SelectSeq(opts.keep_columns,
              LAMBDA c : MatchesSomeColumn(c, CallDerived.table.cols))

\* C14: when keep_columns is explicitly given, the columns of the returned
\* table are exactly the derived fields date, hora (and hora_original)
\* followed by the names of keep_columns that exist in the post-derivation
\* table, in the order of keep_columns, and no returned column is absent from
\* the post-derivation table.
C14_ProjectionIsDerivedPlusKept ==
    (result.status = "returned" /\ ExplicitKeep)
    => /\ Len(result.table.cols) >= Len(DerivedNames)
       /\ SubSeq(result.table.cols, 1, Len(DerivedNames)) = DerivedNames
       /\ Len(AfterDerived) = Len(KeptRequests)
       /\ \A k \in 1..Len(AfterDerived) :
              Lower(AfterDerived[k]) = Lower(KeptRequests[k])
       /\ \A k \in 1..Len(result.table.cols) :
              In(result.table.cols[k], CallDerived.table.cols)

(***************************************************************************)
(* The projection alone: calls with keep_columns lists of every letter     *)
(* case                                                                    *)
(***************************************************************************)

\* largest number of names in a keep_columns list
MaxKeep == 2

N_AUTHOR == <<"A", "U", "T", "H", "O", "R">>

\* the columns of the input tables of the projection
ProjectCatalogue(p) ==
    IF p = "tubular"
    THEN <<N_Created_Time, N_tag, N_tag_text, N_Views, N_views>>
    ELSE <<N_Date, N_Time, N_Author>>

\* the names a keep_columns list is made of
ProjectRequests(p) ==
    IF p = "tubular" THEN {N_Views, N_VIEWS, N_views, N_Nope}
    ELSE {N_Author, N_AUTHOR, N_Nope}

ProjectInit ==
    /\ profile \in {"tubular", "youscan"}
    /\ \E I \in SUBSET (1..Len(ProjectCatalogue(profile))), seeds \in 0..1 :
           df = MakeTable(profile,
                          SelectSeq(ProjectCatalogue(profile),
                                    LAMBDA c : IndexOf(ProjectCatalogue(profile), c) \in I),
                          [i \in 1..seeds |-> 1])
    /\ \E kc \in DistinctSeqs(ProjectRequests(profile), MaxKeep) \cup {NoneList},
          dr \in BOOLEAN :
           opts = [DefaultOpts EXCEPT !.created_col =
                                          IF profile = "tubular"
                                          THEN N_Created_Time ELSE None,
                                      !.drop_original = dr,
                                      !.keep_columns = kc]
    /\ result = Pending
    /\ resolved = NotResolved
    /\ default_keep_columns = DEFAULT_KEEP_COLUMNS
    /\ NoBatch

ProjectNext == tubular_call \/ youscan_call

ProjectSpec == ProjectInit /\ [][ProjectNext]_vars

\* C15: in tubular and youscan a name of keep_columns is matched by exact
\* name first and, when no exact match exists, case-insensitively: a
\* requested name that differs from an existing column only in letter case
\* selects that column, which is in the output under its original name.
C15_CaseInsensitiveFallback ==
    (result.status = "returned" /\ ExplicitKeep)
    => \A k \in 1..Len(opts.keep_columns) :
           LET c == opts.keep_columns[k]
               cols == CallDerived.table.cols
           IN  (~In(c, cols) /\ MatchesSomeColumn(c, cols))
               => \E j \in 1..Len(result.table.cols) :
                      /\ Lower(result.table.cols[j]) = Lower(c)
                      /\ In(result.table.cols[j], cols)

(***************************************************************************)
(* Calls without projection                                                *)
(***************************************************************************)

\* the column names of the input table as process_dataframe reads them
InputNames == IF profile = "youscan" THEN normalize_columns(df).cols ELSE df.cols

\* C16: when no keep_columns list is given and the use-default flag is not
\* set, the returned table is the full post-derivation table: every column
\* of it is present, the derived fields are first, and all other columns
\* keep the relative order they had in the input.
C16_UnprojectedKeepsEverything ==
    (result.status = "returned" /\ KeepList = NoneList)
    => /\ \A k \in 1..Len(CallDerived.table.cols) :
              HasCol(result.table, CallDerived.table.cols[k])
       /\ Len(result.table.cols) >= Len(DerivedNames)
       /\ SubSeq(result.table.cols, 1, Len(DerivedNames)) = DerivedNames
       /\ AfterDerived =
              SelectSeq(InputNames,
                        LAMBDA c : In(c, AfterDerived) /\ ~In(c, DerivedNames))

(***************************************************************************)
(* Calls with tz_from and tz_to                                            *)
(***************************************************************************)

\* the values of tz_from and of tz_to
TzZones == {TzNone, "America/Bogota", "Asia/Tokyo"}

\* the column lists of the input tables: with the timestamp columns, and
\* without them
TzColumnLists(p) ==
    CASE p = "sprinklr" -> {<<N_Created_Time, N_Views>>, <<N_Views>>}
      [] p = "tubular" -> {<<N_Created_Time, N_tag, N_tag_text>>,
                           <<N_tag, N_tag_text>>}
      [] OTHER -> {<<N_Date, N_Time, N_Author>>, <<N_Created, N_Time>>,
                   <<N_Author>>}

TzInit ==
    /\ profile \in Profiles
    /\ \E cols \in TzColumnLists(profile), seeds \in SeedSeqs(profile) :
           df = MakeTable(profile, cols, seeds)
    /\ \E zf \in TzZones, zt \in TzZones, pz \in BOOLEAN :
           opts = [DefaultOpts EXCEPT !.created_col =
                                          IF profile = "youscan"
                                          THEN (IF HasCol(df, N_Created)
                                                THEN N_Created ELSE None)
                                          ELSE N_Created_Time,
                                      !.drop_original = FALSE,
                                      !.tz_from = zf, !.tz_to = zt, !.pytz = pz]
    /\ result = Pending
    /\ resolved = NotResolved
    /\ default_keep_columns = DEFAULT_KEEP_COLUMNS
    /\ NoBatch

TzSpec == TzInit /\ [][Next]_vars

\* tz_from or tz_to is set and pytz is missing
ZoneWithoutPytz ==
    (TzTruthy(opts.tz_from) \/ TzTruthy(opts.tz_to)) /\ ~opts.pytz

\* the timestamp columns of the call are in the table
TimestampColumnsFound ==
    CASE profile = "sprinklr" -> find_created_col(df.cols, opts.created_col).ok
      [] profile = "tubular" ->
             tubular_find_created_col(df.cols, opts.created_col).ok
      [] OTHER ->
             LET out0 == normalize_columns(df)
             IN  \/ Truthy(opts.created_col) /\ HasCol(out0, opts.created_col)
                 \/ HasCol(out0, opts.date_col) /\ HasCol(out0, opts.time_col)

ConversionRequested ==
    TzTruthy(opts.tz_from) /\ TzTruthy(opts.tz_to) /\ opts.pytz

\* the timestamps of the call as parsed, before the zone block
ParsedTimestamps ==
    LET o == [opts EXCEPT !.tz_from = TzNone, !.tz_to = TzNone]
    IN  CASE profile = "sprinklr" -> sprinklr_timestamps(df, o).ts
          [] profile = "tubular" -> tubular_timestamps(df, o).ts
          [] OTHER -> youscan_timestamps(df, o).ts

\* the wall clock in the zone tz_to of the instant that has the wall clock ts
\* in the zone tz_from
InDestinationZone(ts) ==
    AddHours(ts, UtcOffset(opts.tz_to) - UtcOffset(opts.tz_from))

\* the values of hora that describe the timestamp ts in the profile
HoraValues(ts) ==
    CASE profile = "sprinklr" -> {sprinklr_hora_series(ts)}
      [] profile = "tubular" -> {tubular_hora_series(ts)}
      [] OTHER -> {HoraOf(ts), HoraOf(FloorHour(ts))}

\* C18: when a conversion is requested (tz_from and tz_to set), date and hora
\* of every row with a parseable timestamp are computed from the converted,
\* zone-stripped timestamp: they describe the instant in the destination
\* zone, so that hora, and date where the day rolls over, follow the
\* conversion.
C18_DerivedFieldsInDestinationZone ==
    (result.status = "returned" /\ ConversionRequested)
    => \A i \in 1..NRows(result.table) :
           ParsedTimestamps[i] # NaT
           => /\ DateCells[i] = DerivedDate(i)
              /\ CallTimestamps[i] = InDestinationZone(ParsedTimestamps[i])
              /\ HoraCells[i] \in HoraValues(InDestinationZone(ParsedTimestamps[i]))

(***************************************************************************)
(* Export flows: auto_export, and process_file followed by export_df       *)
(***************************************************************************)

S_json == <<"j", "s", "o", "n">>

X_json == <<".", "j", "s", "o", "n">>

\* process_file of the module of profile p
process_file(p, f, o) ==
    CASE p = "sprinklr" -> sprinklr_process_file(f, o)
      [] p = "tubular" -> tubular_process_file(f, o)
      [] OTHER -> youscan_process_file(f, o)

\* the calls process_file makes, in order: _read_any, then process_dataframe
\* on what was read
ProcessFileSteps(f) ==
    IF read_any(f).ok THEN <<"read_any", "process_dataframe">> ELSE <<"read_any">>

\* process_file with the outcome r, then export_df(df, out_path): the module
\* docstring's "Revisar primero y luego exportar"
ExportAfter(f, r, out_path, first) ==
    LET done == r.status = "returned"
        e == export_df(out_path)
    IN  [status |-> IF done /\ e.ok THEN "returned" ELSE "raised",
         error |-> IF ~done THEN r.error ELSE e.err,
         steps |-> first \o ProcessFileSteps(f)
                         \o (IF done THEN <<"export_df">> ELSE <<>>),
         written |-> IF done /\ e.ok THEN <<out_path>> ELSE <<>>,
         printed |-> <<>>,
         args |-> out_path]

\* the fmt arguments and the extensions of the output paths of the flows
ExportFormats == {S_xlsx, S_csv, S_json}

ExportExtensions == {X_xlsx, X_csv, X_json}

ExportInit ==
    /\ profile \in Profiles
    /\ \E fmt \in ExportFormats : opts = [BatchOpts(profile) EXCEPT !.fmt = fmt]
    /\ \E k \in 1..Len(FileCatalogue(profile)) :
           files = <<FileCatalogue(profile)[k]>>
    /\ run = NotRun
    /\ idx = 0
    /\ outs = <<>>
    /\ log = <<>>
    /\ attempts = <<>>
    /\ pc = "idle"
    /\ df = EmptyTable
    /\ result = Pending
    /\ resolved = NotResolved
    /\ default_keep_columns = DEFAULT_KEEP_COLUMNS

\* auto_export(file_path, fmt=...)
auto_export_run ==
    /\ run.status = "pending"
    /\ pc = "idle"
    /\ Len(files) = 1
    /\ run' = ExportAfter(files[1], process_file(profile, files[1], opts),
                          derive_out_path(files[1], opts.suffix, opts.fmt),
                          <<"_derive_out_path">>)
    /\ UNCHANGED <<callVars, batchVars, resolved>>

\* df = process_file(file_path); export_df(df, out_path)
process_then_export_df ==
    /\ run.status = "pending"
    /\ pc = "idle"
    /\ Len(files) = 1
    /\ \E ext \in ExportExtensions :
           run' = ExportAfter(files[1], process_file(profile, files[1], opts),
                              [stem |-> files[1].stem \o opts.suffix, ext |-> ext],
                              <<>>)
    /\ UNCHANGED <<callVars, batchVars, resolved>>

ExportNext == auto_export_run \/ process_then_export_df

ExportSpec == ExportInit /\ [][ExportNext]_vars

\* the extension of the output path of the flow is one export_df writes
SupportedOutput == Lower(run.args.ext) \in {X_xlsx, X_xls, X_csv}

\* C19: an output path whose extension is not .xlsx, .xls or .csv makes the
\* export fail with a configuration error before any processing: the error
\* is raised before the input file is read or a row is transformed, and no
\* output file is written.
C19_UnsupportedOutputFailsFirst ==
    (run.status # "pending" /\ ~SupportedOutput)
    => /\ run.status = "raised"
       /\ run.error = "ValueError"
       /\ ~In("read_any", run.steps)
       /\ ~In("process_dataframe", run.steps)
       /\ run.written = <<>>

(***************************************************************************)
(* The command line of each module: the block under __main__               *)
(***************************************************************************)

\* the number of rows DataFrame.head() shows
HeadRows == 5

\* df.head()
head(t) ==
    [cols |-> t.cols,
     rows |-> SubSeq(t.rows, 1, IF NRows(t) < HeadRows THEN NRows(t) ELSE HeadRows)]

\* the keyword arguments main hands on when only --file/--glob, --fmt and
\* --export are given
CliOpts(p) ==
    IF p = "youscan" THEN [DefaultOpts EXCEPT !.drop_original = FALSE]
    ELSE BatchOpts(p)

\* the targets of a run: --file names one path, that may not exist; --glob
\* gives the existing paths that match, maybe none; without both there are none
CliTargets(p, source) ==
    LET cat == FileCatalogue(p)
        there == SelectSeq(cat, LAMBDA f : f.exists)
    IN  CASE source = "file" -> {<<cat[k]>> : k \in 1..Len(cat)}
          [] source = "glob" ->
                 UNION {[1..n -> {there[k] : k \in 1..Len(there)}] :
                            n \in 0..MaxFiles}
          [] OTHER -> {<<>>}

CliInit ==
    /\ profile \in Profiles
    /\ \E fmt \in {S_xlsx, S_csv} : opts = [CliOpts(profile) EXCEPT !.fmt = fmt]
    /\ \E source \in {"file", "glob", "none"}, export \in BOOLEAN :
           /\ files \in CliTargets(profile, source)
           /\ run = [NotRun EXCEPT !.args = [source |-> source, export |-> export]]
    /\ idx = 0
    /\ outs = <<>>
    /\ log = <<>>
    /\ attempts = <<>>
    /\ pc = "main"
    /\ df = EmptyTable
    /\ result = Pending
    /\ resolved = NotResolved
    /\ default_keep_columns = DEFAULT_KEEP_COLUMNS

\* the run ends with an exception or with parser.error
CliFails(err) == [run EXCEPT !.status = "raised", !.error = err]

\* youscan.py, line 326: the parser of youscan declares no --export, so
\* parse_args refuses the flag
youscan_main_unrecognized_export ==
    /\ pc = "main"
    /\ profile = "youscan"
    /\ run.args.export
    /\ run' = CliFails("SystemExit")
    /\ pc' = "exit"
    /\ UNCHANGED <<callVars, files, idx, outs, log, attempts, resolved>>

\* neither --file nor --glob: parser.error
main_parser_error ==
    /\ pc = "main"
    /\ ~(profile = "youscan" /\ run.args.export)
    /\ run.args.source = "none"
    /\ run' = CliFails("SystemExit")
    /\ pc' = "exit"
    /\ UNCHANGED <<callVars, files, idx, outs, log, attempts, resolved>>

\* youscan.py, line 349: `if args.export` on a namespace without that
\* attribute
youscan_main_args_export ==
    /\ pc = "main"
    /\ profile = "youscan"
    /\ ~run.args.export
    /\ run.args.source # "none"
    /\ run' = CliFails("AttributeError")
    /\ pc' = "exit"
    /\ UNCHANGED <<callVars, files, idx, outs, log, attempts, resolved>>

\* `if args.export: outs = batch_export(targets, ...)`: the call
main_export_call ==
    /\ pc = "main"
    /\ profile # "youscan"
    /\ run.args.source # "none"
    /\ run.args.export
    /\ pc' = "loop"
    /\ UNCHANGED <<callVars, files, idx, outs, log, attempts, resolved, run>>

\* `for o in outs: print(f"[OK] Exportado: {o}")`, after batch_export returned
main_export_report ==
    /\ pc = "done"
    /\ run.status = "pending"
    /\ run.args # <<>>
    /\ run' = [run EXCEPT !.status = "returned",
                          !.steps = <<"batch_export">>,
                          !.written = outs,
                          !.printed = [i \in 1..Len(outs) |->
                                          [marker |-> "[OK]", path |-> outs[i]]]]
    /\ pc' = "exit"
    /\ UNCHANGED <<callVars, files, idx, outs, log, attempts, resolved>>

\* the else branch with the outcome r of process_file(targets[0], ...)
PreviewOutcome(r) ==
    IF r.status = "raised" THEN CliFails(r.error)
    ELSE [run EXCEPT !.status = "returned", !.steps = <<"process_file">>,
                     !.printed = <<head(r.table)>>]

\* `else: df = process_file(targets[0], ...); print(df.head())`
main_preview ==
    /\ pc = "main"
    /\ profile # "youscan"
    /\ run.args.source # "none"
    /\ ~run.args.export
    /\ run' = IF files = <<>> THEN CliFails("IndexError")
              ELSE PreviewOutcome(process_file(profile, files[1], opts))
    /\ pc' = "exit"
    /\ UNCHANGED <<callVars, files, idx, outs, log, attempts, resolved>>

CliNext ==
    \/ youscan_main_unrecognized_export
    \/ main_parser_error
    \/ youscan_main_args_export
    \/ main_export_call
    \/ batch_export_iteration
    \/ batch_export_return
    \/ main_export_report
    \/ main_preview

CliSpec == CliInit /\ [][CliNext]_vars

\* the lines of the export mode: one for each output path
OkLines(paths) == [i \in 1..Len(paths) |-> [marker |-> "[OK]", path |-> paths[i]]]

\* C20: for the command line of each of the three profiles, once targets
\* are given: without the export flag the run writes no file and prints a
\* preview of the processed table of the first target; with the export flag
\* batch_export runs over all targets and each successful output path is
\* reported; and no run ends in an error of the argument handling.
C20_BothModesWork ==
    (pc = "exit" /\ run.args.source # "none")
    => /\ run.error \notin {"AttributeError", "SystemExit"}
       /\ ~run.args.export
          => /\ run.written = <<>>
             /\ (files # <<>> /\ Exported(files[1]).ok)
                => /\ run.status = "returned"
                   /\ Len(run.printed) = 1
                   /\ run.printed[1].cols = process_file(profile, files[1], opts).table.cols
       /\ run.args.export
          => /\ run.status = "returned"
             /\ attempts = files
             /\ run.printed = OkLines(SuccessPaths(files))

(***************************************************************************)
(* The scenario "9/5/2025 6:05:00 p.m."                                    *)
(***************************************************************************)

D_9_5_2025 == <<"9", "/", "5", "/", "2", "0", "2", "5">>

H_6_05_00_PM == <<"6", ":", "0", "5", ":", "0", "0", " ", "P", "M">>

\* the input of the scenario: the one column "Created Time" and one row with
\* the text "9/5/2025 6:05:00 p.m."
ScenarioTable ==
    /\ profile \in {"sprinklr", "tubular"}
    /\ df = [cols |-> <<N_Created_Time>>, rows |-> <<<<StampTexts[1]>>>>]

\* C21: a table with the single column "Created Time" holding
\* "9/5/2025 6:05:00 p.m.", processed with the single-column AM/PM profile,
\* yields a row with date "9/5/2025" and hora "6:05:00 PM": the marker is
\* normalized to PM, the date components are not swapped, the minutes are kept.
C21_ScenarioGivesDateAndHora ==
    (result.status # "pending" /\ ScenarioTable)
    => /\ result.status = "returned"
       /\ NRows(result.table) = 1
       /\ DateCells[1] = D_9_5_2025
       /\ HoraCells[1] = H_6_05_00_PM

(***************************************************************************)
(* The caller's table                                                      *)
(***************************************************************************)

\* C22: process_dataframe never mutates the table passed to it: across every
\* call, in every profile, whether it returns or raises, the caller's table
\* has the same column names, column order and cell values as before.
C22_InputNeverMutated == [][df' = df]_vars

\* C22 happens: a tubular call returned on a table of MaxRows rows whose
\* timestamp column was parsed, and the caller's table still holds the texts
C22_CallerStillHasTexts ==
    /\ profile = "tubular"
    /\ result.status = "returned"
    /\ NRows(df) = MaxRows
    /\ HasCol(df, N_Created_Time)
    /\ opts.created_col = N_Created_Time
    /\ \A i \in 1..NRows(df) :
           Column(df, N_Created_Time)[i] \in {StampTexts[k] : k \in 1..Len(StampTexts)}

(***************************************************************************)
(* Flooring to the hour, over the hours of the day                         *)
(***************************************************************************)

\* the minutes of the times of day of the inputs
FloorMinutes == {0, 28, 59}

\* the text of a time of day as each profile receives it: "h:mm:00 a.m." or
\* "h:mm:00 p.m." after a date in tubular, "HH:MM" in youscan
TimeText(p, h, m) ==
    IF p = "tubular"
    THEN <<"9", "/", "5", "/", "2", "0", "2", "5", " ">>
         \o StrOfNat(Hour12(h)) \o <<":">> \o Pad2(m) \o <<":", "0", "0", " ">>
         \o (IF h < 12 THEN <<"a", ".", "m", ".">> ELSE <<"p", ".", "m", ".">>)
    ELSE Pad2(h) \o <<":">> \o Pad2(m)

FloorInit ==
    /\ profile \in {"tubular", "youscan"}
    /\ \E h \in 0..23, m \in FloorMinutes :
           df = IF profile = "tubular"
                THEN [cols |-> <<N_Created_Time, N_tag, N_tag_text>>,
                      rows |-> <<<<TimeText(profile, h, m), OtherText, OtherText>>>>]
                ELSE [cols |-> <<N_Date, N_Time>>,
                      rows |-> <<<<DateTexts[1], TimeText(profile, h, m)>>>>]
    /\ \E fl \in BOOLEAN :
           opts = [DefaultOpts EXCEPT !.created_col =
                                          IF profile = "tubular"
                                          THEN N_Created_Time ELSE None,
                                      !.drop_original = FALSE,
                                      !.floor_to_hour = fl]
    /\ result = Pending
    /\ resolved = NotResolved
    /\ default_keep_columns = DEFAULT_KEEP_COLUMNS
    /\ NoBatch

FloorSpec == FloorInit /\ [][ProjectNext]_vars

\* the timestamp hora of row i is derived from
HoraSource(i) ==
    IF profile = "youscan"
    THEN Strptime_HM(Strip(AsStr(Column(normalize_columns(df), opts.time_col)[i])))
    ELSE CallTimestamps[i]

\* hora derived with the floor of the profile
FlooredHora(ts) ==
    IF profile = "youscan"
    THEN youscan_hora_series(TimeText("youscan", Hour(ts), Minute(ts)),
                             opts.floor_to_hour)
    ELSE tubular_hora_series(ts)

\* C23: flooring to the hour is idempotent: for every timestamp, hora derived
\* from the floored timestamp, floored again, is the same text as hora
\* derived by flooring once, which is the hora of the returned row.
C23_FloorToHourIdempotent ==
    result.status = "returned"
    => \A i \in 1..NRows(result.table) :
           HoraSource(i) # NaT
           => /\ FlooredHora(FloorHour(HoraSource(i))) = FlooredHora(HoraSource(i))
              /\ HoraCells[i] = FlooredHora(HoraSource(i))

\* C23 happens: a time of day with minutes, in the afternoon, was floored
C23_AfternoonMinutesFloored ==
    /\ result.status = "returned"
    /\ NRows(result.table) = 1
    /\ HoraSource(1) # NaT
    /\ Hour(HoraSource(1)) > 12
    /\ Minute(HoraSource(1)) = 59
    /\ HoraCells[1] = HoraOf(<<1900, 1, 1, Hour(HoraSource(1)), 0, 0>>)

(***************************************************************************)
(* The candidate list and the keyword fallback of the resolver             *)
(***************************************************************************)

\* the place in the candidate list of the first candidate name that is a
\* column
FirstCandidate ==
    CHOOSE k \in 1..Len(CandidatesOf(profile)) :
        /\ In(CandidatesOf(profile)[k], df.cols)
        /\ \A j \in 1..(k - 1) : ~In(CandidatesOf(profile)[j], df.cols)

SomeCandidate ==
    \E k \in 1..Len(CandidatesOf(profile)) : In(CandidatesOf(profile)[k], df.cols)

\* C24: when the preferred name is not among the columns, the resolver
\* returns the first name of the candidate list of the profile that is a
\* column, in the order of the candidate list and not of the columns; it wins
\* over a column that only holds a keyword, also one placed earlier.
C24_FirstCandidateWins ==
    (resolved.status # "pending" /\ ~In(opts.created_col, df.cols) /\ SomeCandidate)
    => /\ resolved.status = "returned"
       /\ resolved.col = CandidatesOf(profile)[FirstCandidate]

\* C24 happens: the table starts with a column that only holds a keyword,
\* then a later candidate, then an earlier candidate, which is returned
C24_CandidateBeatsEarlierColumns ==
    /\ resolved.status = "returned"
    /\ ~In(opts.created_col, df.cols)
    /\ df.cols = <<N_date, N_Time, N_Created_Time>>
    /\ resolved.col = N_Created_Time


\* a column holds a keyword of the profile
SomeKeywordColumn ==
    \E i \in 1..Len(df.cols) : HasKeyword(Lower(df.cols[i]), KeywordsOf(profile))

\* the place of the first column, in column order, that holds a keyword
FirstKeywordColumn ==
    CHOOSE i \in 1..Len(df.cols) :
        /\ HasKeyword(Lower(df.cols[i]), KeywordsOf(profile))
        /\ \A j \in 1..(i - 1) : ~HasKeyword(Lower(df.cols[j]), KeywordsOf(profile))

\* C25: in the keyword fallback (no preferred match, no candidate match) the
\* resolver returns the original name of the first column, in column order,
\* whose lower-cased name holds a keyword, for every column set, also when
\* two columns differ only in letter case.
C25_FirstKeywordColumnReturned ==
    (/\ resolved.status # "pending"
     /\ ~(Truthy(opts.created_col) /\ In(opts.created_col, df.cols))
     /\ ~SomeCandidate
     /\ SomeKeywordColumn)
    => /\ resolved.status = "returned"
       /\ resolved.col = df.cols[FirstKeywordColumn]

(***************************************************************************)
(* youscan: the created_col override, hora and hora_original               *)
(***************************************************************************)

H_12_00_00_AM == <<"1", "2", ":", "0", "0", ":", "0", "0", " ", "A", "M">>

\* the call is a youscan call whose created_col is given and is a column
CreatedOverride ==
    /\ profile = "youscan"
    /\ Truthy(opts.created_col)
    /\ HasCol(normalize_columns(df), opts.created_col)

\* C26: in youscan, when a combined timestamp column is supplied through
\* created_col and is present, the timestamp is date-only, at midnight: for
\* every row with a parseable value hora is "12:00:00 AM", whatever the
\* separate time column holds and also when it is absent.
C26_OverrideGivesMidnight ==
    (result.status # "pending" /\ CreatedOverride)
    => /\ result.status = "returned"
       /\ \A i \in 1..NRows(result.table) :
              CallTimestamps[i] # NaT => HoraCells[i] = H_12_00_00_AM


\* the cells of hora_original of the returned table
HoraOriginalCells == Column(result.table, N_hora_original)

\* the 12-hour text of the time of day h:m: "h:mm:00 AM" or "h:mm:00 PM"
TwelveHourText(h, m) ==
    StrOfNat(Hour12(h)) \o <<":">> \o Pad2(m) \o <<":", "0", "0", " ">>
    \o (IF h < 12 THEN <<"A", "M">> ELSE <<"P", "M">>)

\* a text "h:mm:ss XM" with its minutes and seconds set to 00
MinutesZeroed(s) ==
    LET f == SplitOn(s, ":")
    IN  f[1] \o <<":", "0", "0", ":", "0", "0">> \o SubSeq(f[3], 3, Len(f[3]))

KeepCatalogue(p) ==
    IF p = "tubular"
    THEN <<N_Created_Time, N_tag, N_tag_text, DEFAULT_KEEP_COLUMNS[2], N_Views>>
    ELSE <<N_Date, N_Time, N_Author>>

\* the keep_columns lists a caller passes
KeepLists(p) ==
    IF p = "tubular"
    THEN {NoneList, <<N_Views>>, <<N_VIEWS, N_Nope>>, <<DEFAULT_KEEP_COLUMNS[2], N_Views>>}
    ELSE {NoneList, <<N_Author>>, <<N_Nope, N_Author>>}

\* the calls a caller makes: a table and keyword arguments
KeepCalls(p) ==
    {[df |-> MakeTable(p, SelectSeq(KeepCatalogue(p),
                                    LAMBDA c : IndexOf(KeepCatalogue(p), c) \in I),
                       [i \in 1..seeds |-> 1]),
      opts |-> [DefaultOpts EXCEPT !.created_col = IF p = "tubular"
                                                   THEN N_Created_Time ELSE None,
                                   !.keep_columns = kc,
                                   !.use_default_columns = ud]] :
        I \in SUBSET (1..Len(KeepCatalogue(p))), seeds \in 0..1,
        kc \in KeepLists(p), ud \in BOOLEAN}

\* the first call of the process passes no list; the calls after it pass any
KeepInit ==
    /\ profile \in {"tubular", "youscan"}
    /\ \E c \in KeepCalls(profile) :
           /\ c.opts.keep_columns = NoneList
           /\ df = c.df
           /\ opts = c.opts
    /\ result = Pending
    /\ resolved = NotResolved
    /\ default_keep_columns = DEFAULT_KEEP_COLUMNS
    /\ NoBatch

\* the caller calls process_dataframe again, in the same process: with a new
\* list, or with the list object of the call before
next_call ==
    /\ result.status # "pending"
    /\ pc = "idle"
    /\ \E c \in KeepCalls(profile), same_list \in BOOLEAN :
           /\ df' = c.df
           /\ opts' = IF same_list /\ opts.keep_columns # NoneList
                      THEN [c.opts EXCEPT !.keep_columns = opts.keep_columns]
                      ELSE c.opts
    /\ result' = Pending
    /\ UNCHANGED <<profile, default_keep_columns, batchVars, resolved, run>>

KeepNext == tubular_call \/ youscan_call \/ next_call

KeepSpec == KeepInit /\ [][KeepNext]_vars

\* what the call would return in a process that made no call before
FirstCallResult ==
    IF profile = "tubular" THEN tubular_process_dataframe(df, opts)
    ELSE youscan_process_dataframe(df, opts)

\* C28: after any sequence of process_dataframe calls the tubular module list
\* _DEFAULT_KEEP_COLUMNS has the elements it had at import, in the same
\* order; a call leaves the caller's keep_columns list as it was; and the
\* result of a call is the one a first call would give.
C28_KeepListsNeverChanged ==
    /\ [](default_keep_columns = DEFAULT_KEEP_COLUMNS)
    /\ [][result'.status # "pending" => opts'.keep_columns = opts.keep_columns]_vars
    /\ [](result.status # "pending" => result = FirstCallResult)

\* a call that projected a table on the module list, two names of which the
\* table has
C28_DefaultListUsed ==
    /\ profile = "tubular"
    /\ result.status = "returned"
    /\ opts.keep_columns = NoneList
    /\ opts.use_default_columns
    /\ In(N_Views, result.table.cols)
    /\ In(DEFAULT_KEEP_COLUMNS[2], result.table.cols)
    /\ default_keep_columns = DEFAULT_KEEP_COLUMNS


(***************************************************************************)
(* etl: the tables of the pipeline and the operations of DataTransformer   *)
(***************************************************************************)

\* the cells of a table of the pipeline: a number n/d, a text, or a missing
\* value
Num(n) == [k |-> "num", n |-> n, d |-> 1, s |-> ""]

Frac(n, d) == [k |-> "num", n |-> n, d |-> d, s |-> ""]

Str(s) == [k |-> "str", n |-> 0, d |-> 1, s |-> s]

EtlNaN == [k |-> "nan", n |-> 0, d |-> 1, s |-> ""]

\* the outcome of a stage or of an operation: a table, or an exception
EtlOk(t) == [ok |-> TRUE, err |-> "", table |-> t]

EtlRaise(err) == [ok |-> FALSE, err |-> err, table |-> EmptyTable]

\* df.drop_duplicates(): the first of equal rows stays
drop_duplicates(t) ==
    LET keep == SelectSeq([i \in 1..NRows(t) |-> i],
                          LAMBDA i : \A j \in 1..(i - 1) : t.rows[j] # t.rows[i])
    IN  [cols |-> t.cols, rows |-> [i \in 1..Len(keep) |-> t.rows[keep[i]]]]

\* one cell of df.ffill().bfill(): the nearest value above, else the first
\* value below, else missing
ffill_bfill_cell(col, i) ==
    IF \E j \in 1..i : col[j].k # "nan"
    THEN col[CHOOSE j \in 1..i :
                 col[j].k # "nan" /\ \A m \in (j + 1)..i : col[m].k = "nan"]
    ELSE IF \E j \in i..Len(col) : col[j].k # "nan"
    THEN col[CHOOSE j \in i..Len(col) :
                 col[j].k # "nan" /\ \A m \in i..(j - 1) : col[m].k = "nan"]
    ELSE EtlNaN

ffill_bfill(t) ==
    [cols |-> t.cols,
     rows |-> [i \in 1..NRows(t) |->
                  [k \in 1..Len(t.cols) |->
                      ffill_bfill_cell([r \in 1..NRows(t) |-> t.rows[r][k]], i)]]]

\* df.dropna(how='all')
dropna_all(t) ==
    [cols |-> t.cols,
     rows |-> SelectSeq(t.rows,
                        LAMBDA r : \E k \in 1..Len(r) : r[k].k # "nan")]

\* DataTransformer.clean_data
clean_data(t) == EtlOk(dropna_all(ffill_bfill(drop_duplicates(t))))

\* `column > value` or `column >= value` on one cell; a missing cell
\* compares false
ConditionHolds(cell, condition) ==
    /\ cell.k = "num"
    /\ IF condition.op = ">" THEN cell.n > condition.value * cell.d
       ELSE cell.n >= condition.value * cell.d

\* DataTransformer.filter_data: df.query(condition); condition None (not
\* given) and a name that is no column raise
filter_data(t, condition) ==
    IF ~condition.given THEN EtlRaise("ValueError")
    ELSE IF ~HasCol(t, condition.column) THEN EtlRaise("UndefinedVariableError")
    ELSE IF \E i \in 1..NRows(t) : Column(t, condition.column)[i].k = "str"
    THEN EtlRaise("TypeError")
    ELSE EtlOk([cols |-> t.cols,
                rows |-> SelectSeq(t.rows,
                             LAMBDA r : ConditionHolds(r[IndexOf(t.cols, condition.column)],
                                                       condition))])

\* df[name] = series: an existing column is replaced, a new one goes last
AssignColumn(t, name, series) ==
    IF HasCol(t, name) THEN SetColumn(t, name, series)
    ELSE [cols |-> Append(t.cols, name),
          rows |-> [i \in 1..NRows(t) |-> Append(t.rows[i], series[i])]]

\* DataTransformer.add_calculated_column with lambda df: df[col1] * factor,
\* for a column of numbers
add_calculated_column(t, column_name, col1, factor) ==
    IF ~HasCol(t, col1) THEN EtlRaise("KeyError")
    ELSE EtlOk(AssignColumn(t, column_name,
                   [i \in 1..NRows(t) |->
                       LET c == Column(t, col1)[i]
                       IN  IF c.k = "num" THEN Frac(c.n * factor, c.d) ELSE c]))

\* Series.min() and Series.max() of the numbers of a column
NumbersOf(col) == {col[i].n : i \in {j \in 1..Len(col) : col[j].k = "num"}}

SeriesMin(col) == CHOOSE x \in NumbersOf(col) : \A y \in NumbersOf(col) : x <= y

SeriesMax(col) == CHOOSE x \in NumbersOf(col) : \A y \in NumbersOf(col) : x >= y

\* DataTransformer.normalize_column, for a column of whole numbers: 0/0 is
\* a missing value
normalize_column(t, column) ==
    IF column = "<None>" \/ ~HasCol(t, column) THEN EtlRaise("KeyError")
    ELSE LET col == Column(t, column)
         IN  EtlOk(AssignColumn(t, column \o "_normalized",
                 [i \in 1..NRows(t) |->
                     IF col[i].k # "num" THEN EtlNaN
                     ELSE IF SeriesMax(col) = SeriesMin(col) THEN EtlNaN
                     ELSE Frac(col[i].n - SeriesMin(col),
                               SeriesMax(col) - SeriesMin(col))]))

RECURSIVE Ascending(_)
\* the numbers of a set, smallest first
Ascending(S) ==
    IF S = {} THEN <<>>
    ELSE LET m == CHOOSE x \in S : \A y \in S : x <= y
         IN  <<m>> \o Ascending(S \ {m})

RECURSIVE SumOf(_)
SumOf(q) == IF q = <<>> THEN 0 ELSE Head(q) + SumOf(Tail(q))

\* DataTransformer.group_and_aggregate with one key and {column: 'sum'}:
\* one row per key, keys ascending, rows with a missing key left out,
\* missing values skipped by the sum
group_and_aggregate(t, group_by, aggregations) ==
    IF group_by = <<>> THEN EtlRaise("ValueError")
    ELSE IF ~HasCol(t, group_by[1]) \/ ~HasCol(t, aggregations.column)
    THEN EtlRaise("KeyError")
    ELSE LET keys == Ascending(NumbersOf(Column(t, group_by[1])))
             key_at == IndexOf(t.cols, group_by[1])
             agg_at == IndexOf(t.cols, aggregations.column)
             members(key) ==
                 SelectSeq(t.rows,
                           LAMBDA r : r[key_at].k = "num" /\ r[key_at].n = key
                                          /\ r[agg_at].k = "num")
         IN  EtlOk([cols |-> <<group_by[1], aggregations.column>>,
                    rows |-> [g \in 1..Len(keys) |->
                                 <<Num(keys[g]),
                                   Num(SumOf([m \in 1..Len(members(keys[g])) |->
                                                 members(keys[g])[m][agg_at].n]))>>]])


(***************************************************************************)
(* etl: ETLPipeline                                                        *)
(***************************************************************************)

\* transformation.get('condition'): None when the key is absent
NoCondition == [given |-> FALSE, column |-> "<None>", op |-> ">", value |-> 0]

\* the entry has no key 'calculation'
NoCalculation ==
    [present |-> FALSE, has_type |-> FALSE, type |-> "", column |-> "<None>",
     factor |-> 0]

\* an entry of the list 'operations' that has only the key 'type'
Operation(type) ==
    [type |-> type, condition |-> NoCondition, column_name |-> "<None>",
     calculation |-> NoCalculation, column |-> "<None>", group_by |-> <<>>,
     aggregations |-> [column |-> "<None>"]]

\* lines 90-118: one pass of the loop body of transform_data
transform_operation(data, transformation) ==
    CASE transformation.type = "clean" -> clean_data(data)
      [] transformation.type = "filter" ->
             filter_data(data, transformation.condition)
      [] transformation.type = "add_column" ->
             IF ~transformation.calculation.present THEN EtlOk(data)
             ELSE IF ~transformation.calculation.has_type THEN EtlRaise("KeyError")
             ELSE IF transformation.calculation.type = "multiply"
             THEN add_calculated_column(data, transformation.column_name,
                                        transformation.calculation.column,
                                        transformation.calculation.factor)
             ELSE EtlOk(data)
      [] transformation.type = "normalize" ->
             normalize_column(data, transformation.column)
      [] transformation.type = "group" ->
             group_and_aggregate(data, transformation.group_by,
                                 transformation.aggregations)
      [] OTHER -> EtlOk(data)

\* rows of the table of extract_sample_data (100 in the code)
SampleRows == 5

SampleCities == <<"New York", "London", "Tokyo", "Paris", "Sydney">>

\* DataExtractor.extract_sample_data
extract_sample_data ==
    [cols |-> <<"id", "name", "age", "city", "salary">>,
     rows |-> [r \in 1..SampleRows |->
                  <<Num(r), Str("User_" \o ToString(r)), Num(20 + ((r - 1) % 50)),
                    Str(SampleCities[((r - 1) % 5) + 1]),
                    Num(50000 + ((r - 1) * 1000))>>]]

\* ETLPipeline.extract_data: config.exists says whether the file can be read,
\* config.table is what it holds
extract_data(config) ==
    CASE config.type \in {"csv", "json"} ->
             IF config.exists THEN EtlOk(config.table)
             ELSE EtlRaise("FileNotFoundError")
      [] config.type = "dict" -> EtlOk(config.table)
      [] config.type = "sample" -> EtlOk(extract_sample_data)
      [] OTHER -> EtlRaise("ValueError")

\* the destination types load_data writes
WriterTypes == {"csv", "json", "excel", "summary"}

RECURSIVE load_destinations(_, _, _, _, _)
\* lines 126-142: the loop of load_data from destination k on; the write of
\* destination fail_at fails
load_destinations(data, destinations, k, fail_at, written) ==
    IF k > Len(destinations) THEN [ok |-> TRUE, err |-> "", written |-> written]
    ELSE IF destinations[k].type \notin WriterTypes
    THEN load_destinations(data, destinations, k + 1, fail_at, written)
    ELSE IF k = fail_at THEN [ok |-> FALSE, err |-> "OSError", written |-> written]
    ELSE load_destinations(data, destinations, k + 1, fail_at,
             Append(written, [type |-> destinations[k].type,
                              file_path |-> destinations[k].file_path,
                              table |-> data]))

\* ETLPipeline.load_data
load_data(data, config, fail_at) ==
    load_destinations(data, config.destinations, 1, fail_at, <<>>)

\* the test `config is not None`, which the empty dict passes
config_not_none(config) == config.kind # "None"

\* `if transform_config:` and `if load_config:`: None and the empty dict are
\* falsy
config_given(config) == config.kind = "dict"


\* largest number of entries in the list 'operations'
MaxOps == 2

\* the tables the sources hold: columns of whole numbers, a repeated row, a
\* missing value
EtlTables ==
    {[cols |-> <<"age", "salary">>,
      rows |-> <<<<Num(30), Num(100)>>, <<Num(25), EtlNaN>>, <<Num(30), Num(100)>>>>],
     [cols |-> <<"age", "salary">>,
      rows |-> <<<<Num(40), Num(300)>>, <<Num(25), Num(100)>>, <<Num(40), Num(500)>>>>],
     [cols |-> <<"age">>, rows |-> <<<<Num(31)>>>>]}

\* the extract_config dictionaries of the runs
ExtractConfigs ==
    {[type |-> "csv", exists |-> TRUE, table |-> t] : t \in EtlTables}
    \cup {[type |-> "csv", exists |-> FALSE, table |-> EmptyTable],
          [type |-> "sample", exists |-> TRUE, table |-> EmptyTable],
          [type |-> "xml", exists |-> TRUE, table |-> EmptyTable]}

\* the entries the lists 'operations' are made of
EtlOperations ==
    {Operation("clean"),
     [Operation("filter") EXCEPT !.condition =
          [given |-> TRUE, column |-> "age", op |-> ">=", value |-> 30]],
     [Operation("add_column") EXCEPT !.column_name = "bonus",
          !.calculation = [present |-> TRUE, has_type |-> TRUE, type |-> "multiply",
                           column |-> "salary", factor |-> 2]],
     [Operation("add_column") EXCEPT !.column_name = "bonus"],
     [Operation("add_column") EXCEPT !.column_name = "bonus",
          !.calculation = [present |-> TRUE, has_type |-> TRUE, type |-> "add",
                           column |-> "salary", factor |-> 2]],
     [Operation("add_column") EXCEPT !.column_name = "bonus",
          !.calculation = [present |-> TRUE, has_type |-> FALSE, type |-> "",
                           column |-> "salary", factor |-> 2]],
     [Operation("normalize") EXCEPT !.column = "salary"],
     [Operation("group") EXCEPT !.group_by = <<"age">>,
          !.aggregations = [column |-> "salary"]],
     Operation("sort"),
     Operation("<None>")}

\* None, the empty dictionary, or a dictionary with entries
NoConfig == [kind |-> "None", operations |-> <<>>, destinations |-> <<>>]

EmptyConfig == [kind |-> "empty", operations |-> <<>>, destinations |-> <<>>]

TransformConfigs ==
    {NoConfig, EmptyConfig}
    \cup {[kind |-> "dict", operations |-> ops, destinations |-> <<>>] :
              ops \in UNION {[1..n -> EtlOperations] : n \in 0..MaxOps}}

LoadConfigs ==
    {NoConfig, EmptyConfig,
     [kind |-> "dict", operations |-> <<>>,
      destinations |-> <<[type |-> "csv", file_path |-> "out.csv"],
                         [type |-> "summary", file_path |-> "summary.json"]>>],
     [kind |-> "dict", operations |-> <<>>,
      destinations |-> <<[type |-> "parquet", file_path |-> "out.parquet"],
                         [type |-> "json", file_path |-> "out.json"]>>]}

\* run_pipeline has been called and has done nothing yet
EtlInit ==
    /\ profile = "etl"
    /\ df = EmptyTable
    /\ opts \in [extract : ExtractConfigs, transform : TransformConfigs,
                 load : LoadConfigs]
    /\ result = Pending
    /\ resolved = NotResolved
    /\ default_keep_columns = DEFAULT_KEEP_COLUMNS
    /\ run = NotRun
    /\ files = <<>>
    /\ idx = 0
    /\ outs = <<>>
    /\ log = <<>>
    /\ attempts = <<>>
    /\ pc = "extract"

\* lines 66-68: the exception is logged and raised again; run_pipeline is left
EtlFails(stage_steps, err) ==
    /\ run' = [run EXCEPT !.status = "raised", !.error = err, !.steps = stage_steps]
    /\ result' = Raised(err, <<>>)
    /\ pc' = "done"

\* line 50: data = self.extract_data(extract_config)
run_pipeline_extract ==
    /\ pc = "extract"
    /\ LET e == extract_data(opts.extract)
       IN  IF e.ok
           THEN /\ df' = e.table
                /\ run' = [run EXCEPT !.steps = Append(@, "extract")]
                /\ pc' = "transform"
                /\ UNCHANGED result
           ELSE /\ EtlFails(Append(run.steps, "extract"), e.err)
                /\ UNCHANGED df
    /\ UNCHANGED <<profile, opts, files, idx, outs, log, attempts, resolved,
                   default_keep_columns>>

\* lines 54-55 and 87: `if transform_config:`, and transform_data entered
run_pipeline_transform ==
    /\ pc = "transform"
    /\ IF config_given(opts.transform)
       THEN /\ run' = [run EXCEPT !.steps = Append(@, "transform")]
            /\ pc' = "transform_data"
       ELSE /\ pc' = "load"
            /\ UNCHANGED run
    /\ idx' = 0
    /\ UNCHANGED <<profile, df, opts, result, files, outs, log, attempts, resolved,
                   default_keep_columns>>

\* lines 89-118: one pass of the for loop of transform_data
transform_data_iteration ==
    /\ pc = "transform_data"
    /\ idx < Len(opts.transform.operations)
    /\ LET t == transform_operation(df, opts.transform.operations[idx + 1])
       IN  IF t.ok
           THEN /\ df' = t.table
                /\ idx' = idx + 1
                /\ UNCHANGED <<run, result, pc>>
           ELSE /\ EtlFails(run.steps, t.err)
                /\ UNCHANGED <<df, idx>>
    /\ UNCHANGED <<profile, opts, files, outs, log, attempts, resolved,
                   default_keep_columns>>

\* line 120 and line 55: transform_data returns, data is rebound
transform_data_return ==
    /\ pc = "transform_data"
    /\ idx = Len(opts.transform.operations)
    /\ pc' = "load"
    /\ UNCHANGED <<profile, df, opts, result, files, idx, outs, log, attempts,
                   resolved, run, default_keep_columns>>

\* lines 59-60: `if load_config:`, and load_data from its first destination
\* to its last; a write may fail
run_pipeline_load ==
    /\ pc = "load"
    /\ IF config_given(opts.load)
       THEN \E fail_at \in 0..Len(opts.load.destinations) :
                LET l == load_data(df, opts.load, fail_at)
                    begun == [run EXCEPT !.steps = Append(@, "load"),
                                         !.args = <<df>>,
                                         !.written = l.written]
                IN  IF l.ok
                    THEN /\ run' = begun
                         /\ pc' = "return"
                         /\ UNCHANGED result
                    ELSE /\ run' = [begun EXCEPT !.status = "raised", !.error = l.err]
                         /\ result' = Raised(l.err, <<>>)
                         /\ pc' = "done"
       ELSE /\ pc' = "return"
            /\ UNCHANGED <<run, result>>
    /\ UNCHANGED <<profile, df, opts, files, idx, outs, log, attempts, resolved,
                   default_keep_columns>>

\* line 64: return data
run_pipeline_return ==
    /\ pc = "return"
    /\ result' = Returned(df, <<>>)
    /\ run' = [run EXCEPT !.status = "returned"]
    /\ pc' = "done"
    /\ UNCHANGED <<profile, df, opts, files, idx, outs, log, attempts, resolved,
                   default_keep_columns>>

EtlNext ==
    \/ run_pipeline_extract
    \/ run_pipeline_transform
    \/ transform_data_iteration
    \/ transform_data_return
    \/ run_pipeline_load
    \/ run_pipeline_return

EtlSpec == EtlInit /\ [][EtlNext]_vars


RECURSIVE transform_operations(_, _)
\* the operations of a list applied one after another, each to the table the
\* one before returned; an exception ends the list
transform_operations(data, operations) ==
    IF operations = <<>> THEN EtlOk(data)
    ELSE LET t == transform_operation(data, Head(operations))
         IN  IF t.ok THEN transform_operations(t.table, Tail(operations)) ELSE t

\* lines 85-120: transform_data as a whole
transform_data(data, config) == transform_operations(data, config.operations)

\* what extract_data gives for the extract_config of the run
Extracted == extract_data(opts.extract)

\* the place of a stage in the order extract, transform, load
StageRank(stage) ==
    CASE stage = "extract" -> 1
      [] stage = "transform" -> 2
      [] stage = "load" -> 3

\* what transform_data gives for the extracted table and the
\* transform_config of the run
Transformed == transform_data(Extracted.table, opts.transform)

\* the table the last stage before load produced, tr being Transformed
BeforeLoad(tr) == IF In("transform", run.steps) THEN tr.table ELSE Extracted.table

\* C29: run_pipeline runs extract, then transform, then load, each at most
\* once and in that order; transform runs only with a non-empty
\* transform_config and after extract returned; load runs only with a
\* non-empty load_config and receives the table of the last stage that ran;
\* when a stage raises no later stage runs and the caller gets the exception;
\* on success the returned table is the one handed to load.
C29_StagesInOrder ==
    LET tr == Transformed
    IN  /\ \A i, j \in 1..Len(run.steps) :
               i < j => StageRank(run.steps[i]) < StageRank(run.steps[j])
        /\ run.steps # <<>> => run.steps[1] = "extract"
        /\ In("transform", run.steps)
               => opts.transform.kind = "dict" /\ Extracted.ok
        /\ In("load", run.steps)
               => /\ opts.load.kind = "dict"
                  /\ Extracted.ok
                  /\ In("transform", run.steps) => tr.ok
                  /\ run.args = <<BeforeLoad(tr)>>
                  /\ \A k \in 1..Len(run.written) :
                         run.written[k].table = BeforeLoad(tr)
        /\ ~Extracted.ok
               => run.steps \in {<<>>, <<"extract">>}
        /\ (Extracted.ok /\ In("transform", run.steps) /\ ~tr.ok)
               => ~In("load", run.steps) /\ result.status # "returned"
        /\ run.status = "raised"
               => /\ pc = "done"
                  /\ result.status = "raised"
                  /\ result.error = run.error
        /\ result.status = "returned"
               => /\ run.status = "returned"
                  /\ result.table = BeforeLoad(tr)
                  /\ In("load", run.steps) => run.args = <<result.table>>

\* a run of the three stages that returned a table the transform stage made
C29_AllThreeStagesRan ==
    /\ profile = "etl"
    /\ result.status = "returned"
    /\ run.steps = <<"extract", "transform", "load">>
    /\ Len(run.written) = 2
    /\ result.table # Extracted.table
    /\ run.args = <<result.table>>

\* the entries the loop of transform_data has no effect for: a type that is
\* none of the five, or add_column without a multiply calculation
PassedOver(transformation) ==
    \/ transformation.type \notin {"clean", "filter", "add_column", "normalize", "group"}
    \/ /\ transformation.type = "add_column"
       /\ ~(/\ transformation.calculation.present
            /\ transformation.calculation.has_type
            /\ transformation.calculation.type = "multiply")

\* C30: transform_data applies the operations in list order, each to the
\* result of the one before; an entry of an unknown type, or an add_column
\* entry without a multiply calculation, leaves the data unchanged and raises
\* nothing, and the loop goes on to the next entry.
C30_OperationsInOrderUnknownSkipped ==
    /\ [](pc = "transform_data"
             => EtlOk(df) = transform_operations(Extracted.table,
                                SubSeq(opts.transform.operations, 1, idx)))
    /\ [][(pc = "transform_data" /\ idx < Len(opts.transform.operations)
              /\ PassedOver(opts.transform.operations[idx + 1]))
             => (df' = df /\ idx' = idx + 1 /\ pc' = "transform_data"
                    /\ run'.status # "raised")]_vars

=============================================================================
